---- MODULE Spec2Model ----
(***************************************************************************)
(* Verification model of the QA-Demo test sequencing and execution engine. *)
(*                                                                         *)
(* Test ids are strings in the source; only their identity is ever used,   *)
(* so the model writes them as integers: 1..MaxNodes for the nodes of a    *)
(* test graph, and k for test_k of the enhanced agents' test mapping.      *)
(***************************************************************************)
EXTENDS Integers, Sequences, FiniteSets, TLC

VARIABLES
    test_dag,          \* TestDAGSchema.nodes: the sequence of TestDAGNode records
    sequence_result,   \* what TestSequenceTool._run returned (status "none" before the call)
    entry,             \* the caller driving the run (which entry point of the repository)
    session,           \* session_manager.get_session(session_id): "missing", "no_ticket_type", "ready"
    pc,                \* position of the run: "idle", "start", "executing", "done"
    test_sequence,     \* the list get_test_sequence returned
    idx,               \* index in test_sequence of the test being executed
    attempt,           \* _execute_with_retry's loop variable `attempt`
    last_error,        \* _execute_with_retry's `last_error`
    test_results,      \* session.test_results: test_id -> stored result
    execution_results, \* the caller's execution_results list
    run_result,        \* what the entry point returned to its caller
    invocations,       \* history: test_id -> number of TestExecutionTool._run calls
    attempt_log,       \* history: test_id -> the outcomes of its attempts, in order
    context,           \* the execution context handed to execute_enhanced_test
    condition,         \* the condition string under evaluation by the gate
    gate_log,          \* history: the gate's decisions, [test_id, condition, decision]
    enhanced_results,  \* the results of execute_enhanced_test, in execution order
    body_runs,         \* history: test_id -> number of _execute_test_by_type calls
    summary,           \* the summary / results the entry point produced (key -> value)
    tool_call,         \* the arguments of the comparator / dispatcher / engine call under way
    tool_outcome,      \* what that call returned, or the exception that left it
    sequence_history,  \* history: what each run of the Sequencer returned, in order
    elapsed_log        \* test_id -> for each attempt so far, the seconds its tool call took

seqVars == <<test_dag, sequence_result>>

runVars == <<entry, session, pc, test_sequence, idx, attempt, last_error,
             test_results, execution_results, run_result, invocations, attempt_log>>

enhVars == <<context, condition, gate_log, enhanced_results, body_runs, summary>>

callVars == <<tool_call, tool_outcome, sequence_history, elapsed_log>>

vars == <<seqVars, runVars, enhVars, callVars>>

(***************************************************************************)
(* Bounds                                                                  *)
(***************************************************************************)
MaxNodes == 3

MaxRetry == 2

MaxTests == 2

MaxResults == 10

TestIds == 1..MaxNodes

(***************************************************************************)
(* Helpers on sequences and sets                                           *)
(***************************************************************************)
Range(s) == {s[i] : i \in DOMAIN s}

\* The elements of a set of integers as the ascending sequence.
RECURSIVE SortedSeq(_)
SortedSeq(S) ==
    IF S = {} THEN <<>>
    ELSE LET m == CHOOSE x \in S : \A y \in S : x <= y
         IN <<m>> \o SortedSeq(S \ {m})

CircularMessage == "Circular dependency detected in test DAG"

(***************************************************************************)
(* Test Graph Model (schemas.py)                                           *)
(***************************************************************************)
\* TestDAGNode's schema defaults: retry_count = 0, parallel_execution = False.
DefaultRetryCount == 0

DefaultParallel == FALSE

TestDAGNode(id, deps, par, retries) ==
    [test_id |-> id, dependencies |-> deps, parallel_execution |-> par,
     retry_count |-> retries]

\* Graphs of n nodes whose i-th node has test_id i (unique ids) and whose
\* dependencies all name nodes of the graph; self-loops and cycles included.
WellFormedGraphs(n) ==
    { [i \in 1..n |-> TestDAGNode(i, SortedSeq(d[i]), DefaultParallel, DefaultRetryCount)] :
        d \in [1..n -> SUBSET (1..n)] }

(***************************************************************************)
(* Test Sequencer: TestSequenceTool._calculate_execution_order             *)
(***************************************************************************)
\* Lines 64-68: in_degree after the build loop has visited nodes[1..k].
\* `keys` is the insertion order of the dict, `val` its values.
RECURSIVE BuildInDegree(_, _)
BuildInDegree(nodes, k) ==
    IF k = 0 THEN [keys |-> <<>>, val |-> [t \in {} |-> 0]]
    ELSE LET prev == BuildInDegree(nodes, k - 1)
             id   == nodes[k].test_id
             keys == IF id \in Range(prev.keys) THEN prev.keys
                     ELSE Append(prev.keys, id)
         IN [keys |-> keys,
             val  |-> [t \in Range(keys) |->
                          IF t = id THEN Len(nodes[k].dependencies)
                          ELSE prev.val[t]]]

\* Lines 64-67: graph[dep], the dependents of dep in the order appended.
RECURSIVE BuildGraph(_, _, _)
BuildGraph(nodes, k, dep) ==
    IF k = 0 THEN <<>>
    ELSE BuildGraph(nodes, k - 1, dep) \o
         [j \in 1..Cardinality({i \in DOMAIN nodes[k].dependencies :
                                  nodes[k].dependencies[i] = dep})
             |-> nodes[k].test_id]

\* Lines 78-81 with the zero test off by one: a neighbour is enqueued while
\* one of its dependencies is still outstanding (used only to show that the
\* claims depend on the test).
RECURSIVE RelaxOffByOne(_, _, _, _)
RelaxOffByOne(neighbors, i, in_degree, queue) ==
    IF i > Len(neighbors) THEN [in_degree |-> in_degree, queue |-> queue]
    ELSE LET nb  == neighbors[i]
             deg == [in_degree EXCEPT ![nb] = @ - 1]
         IN RelaxOffByOne(neighbors, i + 1, deg,
                          IF deg[nb] = 1 THEN Append(queue, nb) ELSE queue)

\* Lines 78-81: for neighbor in graph[current]: decrement, enqueue at zero.
RECURSIVE Relax(_, _, _, _)
Relax(neighbors, i, in_degree, queue) ==
    IF i > Len(neighbors) THEN [in_degree |-> in_degree, queue |-> queue]
    ELSE LET nb  == neighbors[i]
             deg == [in_degree EXCEPT ![nb] = @ - 1]
         IN Relax(neighbors, i + 1, deg,
                  IF deg[nb] = 0 THEN Append(queue, nb) ELSE queue)

\* Lines 74-81: the while loop of Kahn's algorithm.
RECURSIVE KahnLoop(_, _, _, _)
KahnLoop(nodes, queue, in_degree, execution_order) ==
    IF queue = <<>> THEN execution_order
    ELSE LET current == Head(queue)
             r == Relax(BuildGraph(nodes, Len(nodes), current), 1,
                        in_degree, Tail(queue))
         IN KahnLoop(nodes, r.queue, r.in_degree,
                     Append(execution_order, current))

\* Line 71: the initial queue, the zero in-degree keys in insertion order.
RECURSIVE SelectZero(_, _)
SelectZero(keys, val) ==
    IF keys = <<>> THEN <<>>
    ELSE (IF val[Head(keys)] = 0 THEN <<Head(keys)>> ELSE <<>>)
         \o SelectZero(Tail(keys), val)

\* Lines 84-85 without the check (used only to show the claims depend on it).
CircularCheckNever(execution_order, nodes) == FALSE

\* Lines 84-85: the circular-dependency check.
CircularCheck(execution_order, nodes) == Len(execution_order) # Len(nodes)

\* _calculate_execution_order: the order, or the ValueError it raises.
_calculate_execution_order(nodes) ==
    LET deg   == BuildInDegree(nodes, Len(nodes))
        order == KahnLoop(nodes, SelectZero(deg.keys, deg.val), deg.val, <<>>)
    IN IF CircularCheck(order, nodes)
       THEN [raised |-> TRUE, message |-> CircularMessage, value |-> <<>>]
       ELSE [raised |-> FALSE, message |-> "", value |-> order]

\* node_map = {node.test_id: node ...}: the last node with that id wins.
NodeOf(nodes, id) ==
    nodes[CHOOSE k \in DOMAIN nodes :
            /\ nodes[k].test_id = id
            /\ \A j \in DOMAIN nodes : nodes[j].test_id = id => j <= k]

\* _group_by_execution_phases: phases after walking execution_order[1..k];
\* `current` is the open parallel phase.
RECURSIVE GroupWalk(_, _, _)
GroupWalk(execution_order, nodes, k) ==
    IF k = 0 THEN [phases |-> <<>>, current |-> <<>>]
    ELSE LET prev == GroupWalk(execution_order, nodes, k - 1)
             id   == execution_order[k]
         IN IF NodeOf(nodes, id).parallel_execution
            THEN [phases |-> prev.phases, current |-> Append(prev.current, id)]
            ELSE [phases |->
                     (IF prev.current # <<>>
                      THEN Append(prev.phases,
                                  [phase_type |-> "parallel", tests |-> prev.current])
                      ELSE prev.phases)
                     \o <<[phase_type |-> "sequential", tests |-> <<id>>]>>,
                  current |-> <<>>]

\* Lines 128-134 left out: the parallel phase still open when the walk ends
\* is dropped (used only to show that the claims depend on those lines).
GroupDroppingOpenPhase(execution_order, nodes) ==
    GroupWalk(execution_order, nodes, Len(execution_order)).phases

_group_by_execution_phases(execution_order, nodes) ==
    LET w == GroupWalk(execution_order, nodes, Len(execution_order))
    IN IF w.current # <<>>
       THEN Append(w.phases, [phase_type |-> "parallel", tests |-> w.current])
       ELSE w.phases

NoSequenceResult ==
    [status |-> "none", error |-> "", execution_order |-> <<>>,
     execution_phases |-> <<>>, total_tests |-> 0]

\* TestSequenceTool._run: the JSON it returns, success or {"error", "test_sequence": []}.
TestSequenceTool_run(nodes) ==
    LET r == _calculate_execution_order(nodes)
    IN IF r.raised
       THEN [status |-> "error", error |-> r.message, execution_order |-> <<>>,
             execution_phases |-> <<>>, total_tests |-> 0]
       ELSE [status |-> "success", error |-> "", execution_order |-> r.value,
             execution_phases |-> _group_by_execution_phases(r.value, nodes),
             total_tests |-> Len(nodes)]


(***************************************************************************)
(* Session result set and test results                                     *)
(***************************************************************************)
NoError == "None"

\* The exception texts an attempt can fail with (two, so that "the last
\* error" is distinguishable from an earlier one).
Errors == {"E1", "E2"}

\* A result dict.  `message` is the kind of message, `error` the exception
\* text it carries (in its "error" key or inside the message), `attempts`
\* the "attempts" key, AbsentAttempts when the dict has no such key.
AbsentAttempts == 0

NoResult ==
    [test_id |-> 0, passed |-> FALSE, message |-> "absent", error |-> NoError,
     attempts |-> AbsentAttempts]

\* ToolResult(...).to_dict() as GenericToolFactory.execute_tool produced it.
ToolResultDict(id, passed) ==
    [test_id |-> id, passed |-> passed, message |-> "tool message",
     error |-> NoError, attempts |-> AbsentAttempts]

\* The error_result of TestExecutionTool._run (lines 63-67).
ToolErrorDict(id, e) ==
    [test_id |-> id, passed |-> FALSE, message |-> "Test execution failed",
     error |-> e, attempts |-> AbsentAttempts]

\* The error_result of _execute_with_retry (lines 234-241).
RetriesExhaustedDict(id, retry_count, e) ==
    [test_id |-> id, passed |-> FALSE, message |-> "Test failed after attempts",
     error |-> e, attempts |-> retry_count + 1]

\* store_test_result keeping the entry a test_id already has (used only to
\* show that the claims depend on the assignment overwriting it).
StoreFirstWriteWins(results, id, result) ==
    IF session = "missing" \/ results[id] # NoResult THEN results
    ELSE [results EXCEPT ![id] = result]

\* SessionMemoryManager.store_test_result: a no-op without a session.
store_test_result(results, id, result) ==
    IF session = "missing" THEN results
    ELSE [results EXCEPT ![id] = result]

NoRunResult ==
    [status |-> "none", error |-> "", step |-> "",
     total_tests |-> 0, passed_tests |-> 0, failed_tests |-> 0,
     overall_status |-> "none"]

(***************************************************************************)
(* TestManagementAgent.get_test_sequence                                   *)
(***************************************************************************)
TestInfo(node) ==
    [test_id |-> node.test_id, dependencies |-> node.dependencies,
     parallel_execution |-> node.parallel_execution,
     retry_count |-> node.retry_count]

\* get_test_sequence leaving out the last test of the order (used only to
\* show that the claims depend on every ordered test being handed on).
SequenceWithoutLast(tool_result, nodes) ==
    IF tool_result.status = "error" THEN <<>>
    ELSE [k \in 1..(Len(tool_result.execution_order) - 1) |->
             TestInfo(NodeOf(nodes, tool_result.execution_order[k]))]

\* [] when the tool reported an error, else one test_info per ordered id.
get_test_sequence(tool_result, nodes) ==
    IF tool_result.status = "error" THEN <<>>
    ELSE [k \in DOMAIN tool_result.execution_order |->
             TestInfo(NodeOf(nodes, tool_result.execution_order[k]))]

(***************************************************************************)
(* Summaries                                                               *)
(***************************************************************************)
RECURSIVE CountPassed(_)
CountPassed(results) ==
    IF results = <<>> THEN 0
    ELSE (IF Head(results).passed THEN 1 ELSE 0) + CountPassed(Tail(results))

OverallStatus(failed_tests) == IF failed_tests = 0 THEN "PASS" ELSE "FAIL"

\* OrchestrationAgent.coordinate_test_execution's return after the loop,
\* with _generate_execution_summary over the returned results.
CoordinateComplete(results) ==
    LET total  == Len(results)
        passed == CountPassed(results)
    IN [status |-> "test_execution_complete", error |-> "", step |-> "",
        total_tests |-> total, passed_tests |-> passed,
        failed_tests |-> total - passed,
        overall_status |-> OverallStatus(total - passed)]

\* TestExecutionAgent.get_test_summary over the session's stored results and
\* LangChainPipeline._generate_final_summary / process_ticket's return.
PipelineComplete(stored) ==
    LET done   == {t \in DOMAIN stored : stored[t] # NoResult}
        passed == Cardinality({t \in done : stored[t].passed})
        total  == Cardinality(done)
    IN [status |-> "completed", error |-> "", step |-> "",
        total_tests |-> total, passed_tests |-> passed,
        failed_tests |-> total - passed,
        overall_status |-> OverallStatus(total - passed)]

ErrorReturn(message, step) ==
    [status |-> "error", error |-> message, step |-> step,
     total_tests |-> 0, passed_tests |-> 0, failed_tests |-> 0,
     overall_status |-> "none"]

Complete(results, stored) ==
    IF entry = "coordinate_test_execution" THEN CoordinateComplete(results)
    ELSE PipelineComplete(stored)

(***************************************************************************)
(* Strings of the gate.  A Python string is modelled as the sequence of    *)
(* its atoms: every "=", every ", " and every blank next to one of them is *)
(* an atom of its own, and every other atom is a run of text holding none  *)
(* of them.  Two strings are equal exactly when their atom sequences are.  *)
(***************************************************************************)
Text(a) == <<a>>

\* The string "key = value".
KeyEquals(key, value) == <<key, " ", "=", " ", value>>

\* str.lower() on one atom, for the atoms that hold upper-case letters.
LowerAtom(a) ==
    CASE a \in {"No", "NO"} -> "no"
      [] a \in {"Yes", "YES"} -> "yes"
      [] a = "Engage" -> "engage"
      [] OTHER -> a

lower(str) == [i \in DOMAIN str |-> LowerAtom(str[i])]

startswith(str, prefix) ==
    /\ Len(str) >= Len(prefix)
    /\ SubSeq(str, 1, Len(prefix)) = prefix

\* str.split(sep): the pieces between the occurrences of sep, at least one.
RECURSIVE SplitFrom(_, _, _, _)
SplitFrom(str, sep, i, piece) ==
    IF i > Len(str) THEN <<piece>>
    ELSE IF str[i] = sep THEN <<piece>> \o SplitFrom(str, sep, i + 1, <<>>)
    ELSE SplitFrom(str, sep, i + 1, Append(piece, str[i]))

split(str, sep) == SplitFrom(str, sep, 1, <<>>)

RECURSIVE StripLeft(_)
StripLeft(str) ==
    IF str # <<>> /\ Head(str) = " " THEN StripLeft(Tail(str)) ELSE str

RECURSIVE StripRight(_)
StripRight(str) ==
    IF str # <<>> /\ str[Len(str)] = " "
    THEN StripRight(SubSeq(str, 1, Len(str) - 1)) ELSE str

strip(str) == StripRight(StripLeft(str))

(***************************************************************************)
(* Conditional Execution Gate: TestMapperAgent (orchestration_agents.py)   *)
(***************************************************************************)
Always == Text("Always")

\* "Order Type ≠ Approved": the sign is written /= here.
OrderTypeNotApproved == Text("Order Type /= Approved")

ProductClassList ==
    <<"Product class", " ", "=", " ", "Equity", ", ", "ETF", ", ",
      "Listed Options", ", ", "FX", ", ", "Precious Metals">>

\* The "condition" of test_1 .. test_16 in TestMapperAgent.test_mapping
\* (test_12's condition is a dash, written -- here).
test_mapping ==
    << Text("All products except out-of-scope transactions"),
       Always,
       Always,
       KeyEquals("Engage", "No"),
       KeyEquals("Engage", "Yes"),
       OrderTypeNotApproved,
       KeyEquals("Order Type", "FVEQ New Issuance"),
       Always,
       Always,
       Text("Order taken by MFO"),
       ProductClassList,
       Text("--"),
       Text("Products in scope for bilateral agreement"),
       KeyEquals("Order Type", "FVEQ New Issuance"),
       KeyEquals("Order Type", "FI New Issuance"),
       Always >>

MappedIds == DOMAIN test_mapping

\* A test id that test_mapping has no entry for.
UnmappedId == Len(test_mapping) + 1

EnhancedIds == MappedIds \cup {UnmappedId}

\* get_test_condition: requirements.get("condition", "Always").
get_test_condition(test_id) ==
    IF test_id \in MappedIds THEN test_mapping[test_id] ELSE Always

\* The final `return True` turned into a skip (used only to show that the
\* claims depend on it).
UnmatchedDefaultSkip == FALSE

\* Line 246: return True  # Default to executing the test
UnmatchedDefault == TRUE

\* should_execute_test after the lookup of the condition: the if/elif chain.
\* A context field is <<>> when the key is missing (context.get(key, "")).
EvaluateCondition(cond, ctx) ==
    IF cond = Always THEN TRUE
    ELSE IF cond = KeyEquals("Engage", "No")
         THEN lower(ctx.engage_status) = Text("no")
    ELSE IF cond = KeyEquals("Engage", "Yes")
         THEN lower(ctx.engage_status) = Text("yes")
    ELSE IF cond = KeyEquals("Order Type", "FVEQ New Issuance")
         THEN ctx.order_type = Text("FVEQ New Issuance")
    ELSE IF cond = KeyEquals("Order Type", "FI New Issuance")
         THEN ctx.order_type = Text("FI New Issuance")
    ELSE IF cond = OrderTypeNotApproved
         THEN ctx.order_type # Text("Approved")
    ELSE IF cond = Text("Order taken by MFO")
         THEN ctx.order_taker_type = Text("MFO")
    ELSE IF cond = Text("Products in scope for bilateral agreement")
         THEN ctx.product_type \in {Text("Equity"), Text("Fixed Income")}
    ELSE IF startswith(cond, <<"Product class", " ", "=">>)
         THEN LET product_classes == split(strip(split(cond, "=")[2]), ", ")
              IN ctx.product_class \in Range(product_classes)
    ELSE UnmatchedDefault

should_execute_test(test_id, ctx) ==
    EvaluateCondition(get_test_condition(test_id), ctx)

\* Condition strings the gate is evaluated on: the ones of test_mapping and
\* strings that differ from them in case, spacing, value or not at all alike.
Conditions ==
    Range(test_mapping) \cup
    { Text("always"),
      Text("ALWAYS"),
      <<>>,
      KeyEquals("Engage", "Maybe"),
      KeyEquals("engage", "no"),
      <<"Engage", "=", "No">>,
      KeyEquals("Order Type", "Approved"),
      Text("Order taken by RM"),
      Text("Product class"),
      <<"Product class", " ", "=">>,
      KeyEquals("Product class", "Bond"),
      KeyEquals("Product Class", "Equity") }

Contexts ==
    [ engage_status    : {<<>>, Text("No"), Text("NO"), Text("yes"),
                          KeyEquals("Engage", "Yes")},
      order_type       : {<<>>, Text("FVEQ New Issuance"), Text("FI New Issuance"),
                          Text("Approved")},
      order_taker_type : {<<>>, Text("MFO"), Text("Regular")},
      product_type     : {<<>>, Text("Equity"), Text("Derivative")},
      product_class    : {<<>>, Text("Equity"), Text("Bond")} ]

\* A context that has none of the keys the gate reads (the web demo's).
EmptyContext ==
    [engage_status |-> <<>>, order_type |-> <<>>, order_taker_type |-> <<>>,
     product_type |-> <<>>, product_class |-> <<>>]

\* The except branch of _prepare_execution_context.
FallbackContext ==
    [engage_status |-> KeyEquals("Engage", "No"),
     order_type |-> Text("FVEQ New Issuance"), order_taker_type |-> <<>>,
     product_type |-> Text("Equity"), product_class |-> <<>>]

\* _prepare_execution_context: product_class and product_type are the same
\* datum, order_taker_type is always set.
PreparedContexts ==
    {c \in Contexts : c.product_class = c.product_type /\ c.order_taker_type # <<>>}
    \cup {FallbackContext}

BodyOutcomes == {"passed", "failed", "raised"}

NotFoundResult(test_id) ==
    [test_id |-> test_id, passed |-> FALSE, skipped |-> FALSE,
     message |-> "not found in mapping"]

\* The skip result reported as a failure (used only to show that the claims
\* depend on it).
SkippedResultAsFailure(test_id) ==
    [test_id |-> test_id, passed |-> FALSE, skipped |-> TRUE,
     message |-> "skipped - condition not met"]

SkippedResult(test_id) ==
    [test_id |-> test_id, passed |-> TRUE, skipped |-> TRUE,
     message |-> "skipped - condition not met"]

\* The result built from _execute_test_by_type's, or from the exception.
BodyResult(test_id, o) ==
    [test_id |-> test_id, passed |-> (o = "passed"), skipped |-> FALSE,
     message |-> IF o = "raised" THEN "Test execution failed" ELSE "body message"]

\* execute_enhanced_test: its result, whether it evaluated the gate and to
\* what, and whether it ran the test body.
execute_enhanced_test(test_id, ctx, o) ==
    IF test_id \notin MappedIds
    THEN [result |-> NotFoundResult(test_id), gated |-> FALSE, gate |-> FALSE,
          ran_body |-> FALSE]
    ELSE IF ~should_execute_test(test_id, ctx)
    THEN [result |-> SkippedResult(test_id), gated |-> TRUE, gate |-> FALSE,
          ran_body |-> FALSE]
    ELSE [result |-> BodyResult(test_id, o), gated |-> TRUE, gate |-> TRUE,
          ran_body |-> TRUE]

(***************************************************************************)
(* Python values of the comparators.  A str is the sequence of its         *)
(* characters; a number is a decimal with FracDigits fractional digits,    *)
(* held as the integer count of units of 10^-FracDigits (a float is the    *)
(* double nearest to that decimal).                                        *)
(***************************************************************************)
FracDigits == 3

RECURSIVE Pow10(_)
Pow10(n) == IF n = 0 THEN 1 ELSE 10 * Pow10(n - 1)

Scale == Pow10(FracDigits)

None == [type |-> "NoneType"]

Str(chars) == [type |-> "str", chars |-> chars]

Num(units) == [type |-> "float", units |-> units]

\* The number written with three fractional digits, e.g. Milli(651) = 0.651.
Milli(m) == Num(m * Pow10(FracDigits - 3))

Abs(x) == IF x < 0 THEN 0 - x ELSE x

DigitChars == <<"0", "1", "2", "3", "4", "5", "6", "7", "8", "9">>

IsDigit(c) == \E i \in DOMAIN DigitChars : DigitChars[i] = c

DigitVal(c) == (CHOOSE i \in DOMAIN DigitChars : DigitChars[i] = c) - 1

AllDigits(chars) == \A i \in DOMAIN chars : IsDigit(chars[i])

\* The value of a run of digits.
RECURSIVE DigitsValue(_)
DigitsValue(chars) ==
    IF chars = <<>> THEN 0
    ELSE 10 * DigitsValue(SubSeq(chars, 1, Len(chars) - 1)) + DigitVal(chars[Len(chars)])

\* The digits of n, at least `width` of them (zero padded).
RECURSIVE FormatNat(_, _)
FormatNat(n, width) ==
    IF n < 10 /\ width <= 1 THEN <<DigitChars[n + 1]>>
    ELSE Append(FormatNat(n \div 10, width - 1), DigitChars[(n % 10) + 1])

IndexOf(chars, c) ==
    IF \E i \in DOMAIN chars : chars[i] = c
    THEN CHOOSE i \in DOMAIN chars : chars[i] = c /\ \A j \in 1..(i - 1) : chars[j] # c
    ELSE 0

\* float(str) / Decimal(str) on a plain decimal literal: optional sign,
\* digits, optional point and digits (at most FracDigits of them are in the
\* model).  Anything else is not a number: ValueError / InvalidOperation.
ParseDecimal(chars) ==
    LET negative == chars # <<>> /\ chars[1] = "-"
        body     == IF chars # <<>> /\ chars[1] \in {"-", "+"} THEN Tail(chars) ELSE chars
        dot      == IndexOf(body, ".")
        whole    == IF dot = 0 THEN body ELSE SubSeq(body, 1, dot - 1)
        frac     == IF dot = 0 THEN <<>> ELSE SubSeq(body, dot + 1, Len(body))
        ok       == /\ AllDigits(whole) /\ AllDigits(frac)
                    /\ Len(whole) + Len(frac) > 0
                    /\ Len(frac) <= FracDigits
        units    == DigitsValue(whole) * Scale
                    + DigitsValue(frac) * Pow10(FracDigits - Len(frac))
    IN IF ok THEN [ok |-> TRUE, units |-> IF negative THEN 0 - units ELSE units]
       ELSE [ok |-> FALSE, units |-> 0]

\* str(x) of a number: sign, whole part, point, fractional digits without
\* trailing zeros (one is kept, as repr of a float does).
RECURSIVE DropTrailingZeros(_)
DropTrailingZeros(chars) ==
    IF Len(chars) > 1 /\ chars[Len(chars)] = "0"
    THEN DropTrailingZeros(SubSeq(chars, 1, Len(chars) - 1)) ELSE chars

FormatDecimal(units) ==
    (IF units < 0 THEN <<"-">> ELSE <<>>)
    \o FormatNat(Abs(units) \div Scale, 1) \o <<".">>
    \o DropTrailingZeros(FormatNat(Abs(units) % Scale, FracDigits))


(***************************************************************************)
(* Dates.  A datetime is a day number, the second of the day and whether   *)
(* it carries a UTC offset.  Date strings of the model have two-digit       *)
(* months and days.                                                        *)
(***************************************************************************)
BaseYear == 2024

IsLeap(y) == (y % 4 = 0 /\ y % 100 # 0) \/ y % 400 = 0

DaysInMonth(y, m) ==
    IF m = 2 THEN (IF IsLeap(y) THEN 29 ELSE 28)
    ELSE IF m \in {4, 6, 9, 11} THEN 30 ELSE 31

RECURSIVE DaysBeforeMonth(_, _)
DaysBeforeMonth(y, m) ==
    IF m <= 1 THEN 0 ELSE DaysBeforeMonth(y, m - 1) + DaysInMonth(y, m - 1)

RECURSIVE DaysBeforeYear(_)
DaysBeforeYear(y) ==
    IF y <= BaseYear THEN 0
    ELSE DaysBeforeYear(y - 1) + (IF IsLeap(y - 1) THEN 366 ELSE 365)

\* datetime(y, m, d).toordinal(), counted from the first day of BaseYear.
Ordinal(y, m, d) == DaysBeforeYear(y) + DaysBeforeMonth(y, m) + d

Datetime(day, secs, aware) ==
    [type |-> "datetime", day |-> day, secs |-> secs, aware |-> aware]

\* timedelta(days=n) added to a datetime.
PlusDays(dt, n) == [dt EXCEPT !.day = @ + n]

\* A strict comparison (used only to show that the claims depend on
\* the comparison being inclusive).
DtLess(a, b) == a.day < b.day \/ (a.day = b.day /\ a.secs < b.secs)

\* dt1 <= dt2 of two datetimes that are both naive or both aware.
DtLeq(a, b) == a.day < b.day \/ (a.day = b.day /\ a.secs <= b.secs)

\* "YYYY-MM-DD" and "YYYY-MM-DDTHH:MM:SS".
FormatDate(y, m, d) ==
    FormatNat(y, 4) \o <<"-">> \o FormatNat(m, 2) \o <<"-">> \o FormatNat(d, 2)

FormatDateTime(y, m, d, hh, mm, ss) ==
    FormatDate(y, m, d) \o <<"T">> \o FormatNat(hh, 2) \o <<":">>
    \o FormatNat(mm, 2) \o <<":">> \o FormatNat(ss, 2)

\* The years a day number is looked up in.
YearSpan == 3

\* The calendar date of a day number.
DateOf(day) ==
    CHOOSE t \in (BaseYear..(BaseYear + YearSpan)) \X (1..12) \X (1..31) :
        t[3] <= DaysInMonth(t[1], t[2]) /\ Ordinal(t[1], t[2], t[3]) = day

\* str(x): a str is itself, a float its shortest decimal, an int its
\* digits, a datetime "YYYY-MM-DD HH:MM:SS" (with "+00:00" when aware).
ToStr(v) ==
    IF v.type = "str" THEN v.chars
    ELSE IF v.type = "float" THEN FormatDecimal(v.units)
    ELSE IF v.type = "int"
    THEN (IF v.value < 0 THEN <<"-">> ELSE <<>>) \o FormatNat(Abs(v.value), 1)
    ELSE IF v.type = "datetime"
    THEN LET t == DateOf(v.day)
         IN FormatDate(t[1], t[2], t[3]) \o <<" ">>
            \o FormatNat(v.secs \div 3600, 2) \o <<":">>
            \o FormatNat((v.secs \div 60) % 60, 2) \o <<":">>
            \o FormatNat(v.secs % 60, 2)
            \o (IF v.aware THEN <<"+", "0", "0", ":", "0", "0">> ELSE <<>>)
    ELSE <<"N", "o", "n", "e">>

\* The first ten characters read as %Y-%m-%d; a month or day out of range
\* does not parse.
ParseDateFields(chars) ==
    LET shaped == /\ Len(chars) >= 10
                  /\ chars[5] = "-" /\ chars[8] = "-"
                  /\ AllDigits(SubSeq(chars, 1, 4))
                  /\ AllDigits(SubSeq(chars, 6, 7))
                  /\ AllDigits(SubSeq(chars, 9, 10))
        y == DigitsValue(SubSeq(chars, 1, 4))
        m == DigitsValue(SubSeq(chars, 6, 7))
        d == DigitsValue(SubSeq(chars, 9, 10))
    IN IF shaped /\ y >= BaseYear /\ m \in 1..12 /\ d >= 1 /\ d <= DaysInMonth(y, m)
       THEN [ok |-> TRUE, day |-> Ordinal(y, m, d)]
       ELSE [ok |-> FALSE, day |-> 0]

\* Eight characters read as %H:%M:%S.
ParseTimeFields(chars) ==
    LET shaped == /\ Len(chars) = 8
                  /\ chars[3] = ":" /\ chars[6] = ":"
                  /\ AllDigits(SubSeq(chars, 1, 2))
                  /\ AllDigits(SubSeq(chars, 4, 5))
                  /\ AllDigits(SubSeq(chars, 7, 8))
        hh == DigitsValue(SubSeq(chars, 1, 2))
        mm == DigitsValue(SubSeq(chars, 4, 5))
        ss == DigitsValue(SubSeq(chars, 7, 8))
    IN IF shaped /\ hh < 24 /\ mm < 60 /\ ss < 60
       THEN [ok |-> TRUE, secs |-> (hh * 60 + mm) * 60 + ss]
       ELSE [ok |-> FALSE, secs |-> 0]

\* The loop of _to_dt over "%Y-%m-%dT%H:%M:%S" and "%Y-%m-%d": strptime
\* wants the whole string to match one of them.
ParseStrptime(chars) ==
    LET date == ParseDateFields(chars)
        time == ParseTimeFields(SubSeq(chars, 12, Len(chars)))
    IN IF Len(chars) = 19 /\ date.ok /\ chars[11] = "T" /\ time.ok
       THEN [ok |-> TRUE, value |-> Datetime(date.day, time.secs, FALSE)]
       ELSE IF Len(chars) = 10 /\ date.ok
       THEN [ok |-> TRUE, value |-> Datetime(date.day, 0, FALSE)]
       ELSE [ok |-> FALSE, value |-> Datetime(0, 0, FALSE)]

\* compare._to_dt: the datetime, or ValueError("Unrecognized datetime: ...").
_to_dt(v) ==
    IF v.type = "datetime" THEN [raised |-> FALSE, value |-> v]
    ELSE LET parsed == ParseStrptime(ToStr(v))
         IN IF parsed.ok THEN [raised |-> FALSE, value |-> parsed.value]
            ELSE [raised |-> TRUE, value |-> Datetime(0, 0, FALSE)]

\* datetime.fromisoformat(s.replace('Z', '+00:00')): a date, a date and a
\* time, or these followed by Z (then the datetime is offset-aware).
ParseIsoformat(chars) ==
    LET date  == ParseDateFields(chars)
        zulu  == Len(chars) = 20 /\ chars[20] = "Z"
        time  == ParseTimeFields(SubSeq(chars, 12, 19))
    IN IF Len(chars) = 10 /\ date.ok
       THEN [ok |-> TRUE, value |-> Datetime(date.day, 0, FALSE)]
       ELSE IF (Len(chars) = 19 \/ zulu) /\ date.ok /\ time.ok
       THEN [ok |-> TRUE, value |-> Datetime(date.day, time.secs, zulu)]
       ELSE [ok |-> FALSE, value |-> Datetime(0, 0, FALSE)]

(***************************************************************************)
(* Generic tools (generic_tools.py).  A helper returns (passed, message)   *)
(* or raises; a message is the pair of its fixed text and the value or     *)
(* name formatted into it.                                                  *)
(***************************************************************************)
LowerCase == <<"a", "b", "c", "e", "n", "o", "t", "x", "z">>

UpperCase == <<"A", "B", "C", "E", "N", "O", "T", "X", "Z">>

UpperChar(c) ==
    IF \E i \in DOMAIN LowerCase : LowerCase[i] = c
    THEN UpperCase[CHOOSE i \in DOMAIN LowerCase : LowerCase[i] = c] ELSE c

LowerChar(c) ==
    IF \E i \in DOMAIN UpperCase : UpperCase[i] = c
    THEN LowerCase[CHOOSE i \in DOMAIN UpperCase : UpperCase[i] = c] ELSE c

\* str.upper() and str.lower().
Upper(chars) == [i \in DOMAIN chars |-> UpperChar(chars[i])]

Lower(chars) == [i \in DOMAIN chars |-> LowerChar(chars[i])]

\* str.replace(c, ""): every occurrence of the character removed.
RECURSIVE RemoveChar(_, _)
RemoveChar(chars, c) ==
    IF chars = <<>> THEN <<>>
    ELSE (IF Head(chars) = c THEN <<>> ELSE <<Head(chars)>>) \o RemoveChar(Tail(chars), c)

\* needle in hay, for two strs.
IsSubstring(needle, hay) ==
    \E i \in 1..(Len(hay) - Len(needle) + 1) :
        SubSeq(hay, i, i + Len(needle) - 1) = needle

\* not s.strip(): the str is empty or all blanks.
IsBlank(chars) == \A i \in DOMAIN chars : chars[i] = " "

\* A dict of parameters, and what is passed when the caller passes none.
Dict(items) == [type |-> "dict", items |-> items]

EmptyDict == Dict(<<>>)

\* parameters.get(key, default); AttributeError when parameters is no dict.
HasGet(parameters) == parameters.type = "dict"

Get(parameters, key, default) ==
    IF key \in DOMAIN parameters.items THEN parameters.items[key] ELSE default

PyInt(n) == [type |-> "int", value |-> n]

\* bool(v).
Truthy(v) ==
    IF v.type = "NoneType" THEN FALSE
    ELSE IF v.type = "str" THEN v.chars # <<>>
    ELSE IF v.type = "float" THEN v.units # 0
    ELSE IF v.type = "int" THEN v.value # 0
    ELSE IF v.type = "dict" THEN DOMAIN v.items # {}
    ELSE TRUE

\* `parameters or {}`.
OrEmpty(parameters) == IF Truthy(parameters) THEN parameters ELSE EmptyDict

Returned(passed, text, detail) ==
    [raised |-> FALSE, passed |-> passed, message |-> <<text, detail>>]

Raised(text) == [raised |-> TRUE, passed |-> FALSE, message |-> <<text, "">>]

ToolResult(test_id, passed, message) ==
    [test_id |-> test_id, passed |-> passed, message |-> message]

\* What leaves a tool's execute: a ToolResult, or an exception.
Result(tool_result) == [raised |-> FALSE, result |-> tool_result]

Escaped(text) ==
    [raised |-> TRUE, result |-> ToolResult(0, FALSE, <<text, "">>)]

\* The try/except of a tool's execute without the except clause (used only
\* to show that the claims depend on it).
CatchNothing(test_id, r, text) ==
    IF r.raised THEN Escaped(r.message[1])
    ELSE Result(ToolResult(test_id, r.passed, r.message))

\* `except Exception as e: return ToolResult(test_id, False, f"...: {e}")`
\* around the helper's result r.
Catch(test_id, r, text) ==
    IF r.raised THEN Result(ToolResult(test_id, FALSE, <<text, r.message[1]>>))
    ELSE Result(ToolResult(test_id, r.passed, r.message))

\* a == b of two Python values: values of different types are unequal.
IsNumber(v) == v.type \in {"float", "int"}

NumberUnits(v) == IF v.type = "int" THEN v.value * Scale ELSE v.units

PyEquals(a, b) ==
    IF IsNumber(a) /\ IsNumber(b) THEN NumberUnits(a) = NumberUnits(b) ELSE a = b

\* The value as a float for an ordering comparison: float(str) of a str, the
\* value itself otherwise.
AsFloat(v) ==
    IF v.type = "str"
    THEN (IF ParseDecimal(v.chars).ok
          THEN [ok |-> TRUE, value |-> Num(ParseDecimal(v.chars).units)]
          ELSE [ok |-> FALSE, value |-> v])
    ELSE [ok |-> TRUE, value |-> v]

\* a < b is defined between two floats and between two datetimes that are
\* both naive or both aware; TypeError otherwise.
Ordered(a, b) ==
    \/ IsNumber(a) /\ IsNumber(b)
    \/ a.type = "datetime" /\ b.type = "datetime" /\ a.aware = b.aware

PyLess(a, b) ==
    IF IsNumber(a) THEN NumberUnits(a) < NumberUnits(b)
    ELSE a.day < b.day \/ (a.day = b.day /\ a.secs < b.secs)

\* CompareTool._equals
CompareTool_equals(data_a, data_b, parameters) ==
    IF ~HasGet(parameters) THEN Raised("AttributeError")
    ELSE LET insensitive == /\ ~Get(parameters, "case_sensitive", TRUE)
                            /\ data_a.type = "str" /\ data_b.type = "str"
             a == IF insensitive THEN Str(Lower(data_a.chars)) ELSE data_a
             b == IF insensitive THEN Str(Lower(data_b.chars)) ELSE data_b
         IN Returned(PyEquals(a, b), "Values are equal / not equal", "")

\* CompareTool._not_equals
CompareTool_not_equals(data_a, data_b, parameters) ==
    Returned(~PyEquals(data_a, data_b), "Values are not equal / equal", "")

\* CompareTool._greater_than and _less_than: ValueError and TypeError are
\* caught inside and give (False, "Cannot compare non-numeric values").
CompareTool_ordering(data_a, data_b, less) ==
    LET a == AsFloat(data_a)
        b == AsFloat(data_b)
    IN IF a.ok /\ b.ok /\ Ordered(a.value, b.value)
       THEN Returned(IF less THEN PyLess(a.value, b.value) ELSE PyLess(b.value, a.value),
                     "is / is not greater or less than", "")
       ELSE Returned(FALSE, "Cannot compare non-numeric values", "")

\* Decimal(str(x)): the exact decimal, or InvalidOperation.
AsDecimal(v) ==
    IF v.type \in {"str", "float"} THEN ParseDecimal(ToStr(v))
    ELSE IF v.type = "int" THEN [ok |-> TRUE, units |-> v.value * Scale]
    ELSE [ok |-> FALSE, units |-> 0]

\* x.quantize(Decimal(1) / 10^places, rounding=ROUND_HALF_UP): to `places`
\* fractional digits, ties away from zero, in exact decimal arithmetic.
RoundHalfUp(units, places) ==
    LET q == Pow10(FracDigits - places)
        n == (2 * Abs(units) + q) \div (2 * q)
    IN IF units < 0 THEN 0 - n * q ELSE n * q

\* Line 143-144: the quantum Decimal('0.01') of _rounded_equality.
QuantizePlaces == 2

\* CompareTool._rounded_equality: every exception is caught inside.
CompareTool_rounded_equality(data_a, data_b, parameters) ==
    IF ~HasGet(parameters) THEN Raised("AttributeError")
    ELSE LET a == AsDecimal(data_a)
             b == AsDecimal(data_b)
         IN IF a.ok /\ b.ok
            THEN Returned(RoundHalfUp(a.units, QuantizePlaces)
                              = RoundHalfUp(b.units, QuantizePlaces),
                          "Values are equal / not equal at decimal places",
                          Get(parameters, "precision", 2))
            ELSE Returned(FALSE, "Cannot perform rounded comparison", "")

\* CompareTool.execute
CompareTool_execute(test_id, data_a, data_b, operation, params) ==
    LET parameters == OrEmpty(params)
    IN IF operation = "equals"
       THEN Catch(test_id, CompareTool_equals(data_a, data_b, parameters),
                  "Comparison failed")
       ELSE IF operation = "not_equals"
       THEN Catch(test_id, CompareTool_not_equals(data_a, data_b, parameters),
                  "Comparison failed")
       ELSE IF operation = "greater_than"
       THEN Catch(test_id, CompareTool_ordering(data_a, data_b, FALSE),
                  "Comparison failed")
       ELSE IF operation = "less_than"
       THEN Catch(test_id, CompareTool_ordering(data_a, data_b, TRUE),
                  "Comparison failed")
       ELSE IF operation = "rounded_equality"
       THEN Catch(test_id, CompareTool_rounded_equality(data_a, data_b, parameters),
                  "Comparison failed")
       ELSE Result(ToolResult(test_id, FALSE, <<"Unsupported operation", operation>>))

\* timedelta(days=v): a number of days, or TypeError.
TimedeltaDays(v) ==
    IF v.type = "int" THEN [ok |-> TRUE, days |-> v.value]
    ELSE [ok |-> FALSE, days |-> 0]

\* The date operand and the reference date as datetimes: a str through
\* fromisoformat (ValueError when malformed), anything else as it is.
AsDate(v) ==
    IF v.type = "str"
    THEN (IF ParseIsoformat(v.chars).ok
          THEN [ok |-> TRUE, value |-> ParseIsoformat(v.chars).value]
          ELSE [ok |-> FALSE, value |-> v])
    ELSE [ok |-> TRUE, value |-> v]

\* DateRangeTool._in_range; now is what datetime.now() returns.
DateRangeTool_in_range(date_value, parameters, now) ==
    IF ~HasGet(parameters) THEN Raised("AttributeError")
    ELSE LET min_offset_days == TimedeltaDays(Get(parameters, "min_offset_days", PyInt(0)))
             max_offset_days == TimedeltaDays(Get(parameters, "max_offset_days", PyInt(30)))
             reference_date  == Get(parameters, "reference_date", None)
             date_obj        == AsDate(date_value)
             ref_date        == IF Truthy(reference_date) THEN AsDate(reference_date)
                                ELSE [ok |-> TRUE, value |-> now]
         IN IF date_value.type = "str" /\ ~date_obj.ok THEN Raised("ValueError")
            ELSE IF date_value.type \notin {"str", "datetime"}
            THEN Returned(FALSE, "Cannot parse date", "")
            ELSE IF ~ref_date.ok THEN Raised("ValueError")
            ELSE IF \/ ref_date.value.type # "datetime"
                    \/ ~min_offset_days.ok \/ ~max_offset_days.ok
            THEN Raised("TypeError")
            ELSE IF ref_date.value.aware # date_obj.value.aware THEN Raised("TypeError")
            ELSE Returned(/\ DtLeq(PlusDays(ref_date.value, min_offset_days.days),
                                   date_obj.value)
                          /\ DtLeq(date_obj.value,
                                   PlusDays(ref_date.value, max_offset_days.days)),
                          "Date is within / outside range", "")

\* DateRangeTool._greater_than and _less_than.
DateRangeTool_ordering(date_value, parameters, less) ==
    IF ~HasGet(parameters) THEN Raised("AttributeError")
    ELSE LET reference_date == Get(parameters, "reference_date", None)
             date_obj       == AsDate(date_value)
             ref_date       == AsDate(reference_date)
         IN IF ~Truthy(reference_date)
            THEN Returned(FALSE, "Reference date required", "")
            ELSE IF date_value.type = "str" /\ ~date_obj.ok THEN Raised("ValueError")
            ELSE IF date_value.type \notin {"str", "datetime"}
            THEN Returned(FALSE, "Cannot parse date", "")
            ELSE IF ~ref_date.ok THEN Raised("ValueError")
            ELSE IF ~Ordered(date_obj.value, ref_date.value) THEN Raised("TypeError")
            ELSE Returned(IF less THEN PyLess(date_obj.value, ref_date.value)
                          ELSE PyLess(ref_date.value, date_obj.value),
                          "Date is / is not greater or less than", "")

\* DateRangeTool.execute
DateRangeTool_execute(test_id, date_value, operation, params, now) ==
    LET parameters == OrEmpty(params)
    IN IF operation = "in_range"
       THEN Catch(test_id, DateRangeTool_in_range(date_value, parameters, now),
                  "Date validation failed")
       ELSE IF operation = "greater_than"
       THEN Catch(test_id, DateRangeTool_ordering(date_value, parameters, FALSE),
                  "Date validation failed")
       ELSE IF operation = "less_than"
       THEN Catch(test_id, DateRangeTool_ordering(date_value, parameters, TRUE),
                  "Date validation failed")
       ELSE Result(ToolResult(test_id, FALSE, <<"Unsupported date operation", operation>>))

\* The data is None, a blank str or an empty container.
IsEmpty(data) ==
    \/ data.type = "NoneType"
    \/ data.type = "str" /\ IsBlank(data.chars)
    \/ data.type = "dict" /\ DOMAIN data.items = {}

\* ValidationTool._exists
ValidationTool_exists(data, parameters) ==
    IF ~HasGet(parameters) THEN Raised("AttributeError")
    ELSE Returned(~IsEmpty(data), "exists / does not exist", "")

\* ValidationTool._not_exists
ValidationTool_not_exists(data, parameters) ==
    IF ~HasGet(parameters) THEN Raised("AttributeError")
    ELSE Returned(IsEmpty(data), "does not exist / exists", "")

\* ValidationTool._contains
ValidationTool_contains(data, parameters) ==
    IF ~HasGet(parameters) THEN Raised("AttributeError")
    ELSE LET search_value   == Get(parameters, "search_value", None)
             case_sensitive == Get(parameters, "case_sensitive", TRUE)
         IN IF search_value.type = "NoneType"
            THEN Returned(FALSE, "search_value parameter required", "")
            ELSE IF data.type = "str" /\ ~case_sensitive
            THEN Returned(IsSubstring(Lower(ToStr(search_value)), Lower(data.chars)),
                          "contains / does not contain", "")
            ELSE IF data.type = "dict"
            THEN Returned(search_value.type = "str"
                              /\ \E k \in DOMAIN data.items : Str(k) = search_value,
                          "contains / does not contain", "")
            ELSE Returned(IsSubstring(ToStr(search_value), ToStr(data)),
                          "contains / does not contain", "")

\* ValidationTool.execute
ValidationTool_execute(test_id, data, operation, params) ==
    LET parameters == OrEmpty(params)
    IN IF operation = "exists"
       THEN Catch(test_id, ValidationTool_exists(data, parameters), "Validation failed")
       ELSE IF operation = "not_exists"
       THEN Catch(test_id, ValidationTool_not_exists(data, parameters), "Validation failed")
       ELSE IF operation = "contains"
       THEN Catch(test_id, ValidationTool_contains(data, parameters), "Validation failed")
       ELSE Result(ToolResult(test_id, FALSE,
                              <<"Unsupported validation operation", operation>>))

\* schemas.py: TestType and OperationType.
TestType ==
    {"compare", "validate_presence", "date_range_check", "equality_check",
     "rounded_equality"}

OperationType ==
    {"equals", "not_equals", "greater_than", "less_than", "in_range", "contains",
     "exists", "not_exists", "rounded_equality"}

\* The missing-operand guard dropped (used only to show that the claims
\* depend on it).
SecondOperandNeverMissing(additional_data) == FALSE

\* `additional_data is None`
SecondOperandMissing(additional_data) == additional_data.type = "NoneType"

\* GenericToolFactory.execute_tool
execute_tool(tool_type, test_id, data, operation, params, additional_data, now) ==
    LET parameters == OrEmpty(params)
    IN IF tool_type = "compare"
       THEN (IF SecondOperandMissing(additional_data)
             THEN Result(ToolResult(test_id, FALSE,
                                    <<"Compare tool requires two data values", "">>))
             ELSE CompareTool_execute(test_id, data, additional_data, operation, parameters))
       ELSE IF tool_type = "date_range_check"
       THEN DateRangeTool_execute(test_id, data, operation, parameters, now)
       ELSE IF tool_type = "validate_presence"
       THEN ValidationTool_execute(test_id, data, operation, parameters)
       ELSE IF tool_type = "equality_check"
       THEN (IF SecondOperandMissing(additional_data)
             THEN Result(ToolResult(test_id, FALSE,
                                    <<"Equality check requires two data values", "">>))
             ELSE CompareTool_execute(test_id, data, additional_data, "equals", parameters))
       ELSE IF tool_type = "rounded_equality"
       THEN (IF SecondOperandMissing(additional_data)
             THEN Result(ToolResult(test_id, FALSE,
                                    <<"Rounded equality check requires two data values", "">>))
             ELSE CompareTool_execute(test_id, data, additional_data, "rounded_equality",
                                      parameters))
       ELSE Result(ToolResult(test_id, FALSE, <<"Unsupported tool type", tool_type>>))

(***************************************************************************)
(* Comparators of agents/compare.py                                        *)
(***************************************************************************)
\* The bits of a double's significand after the leading one.
MantissaBits == 52

\* n / d halved or doubled into [1, 2): the pair <<n', d'>> with
\* n' / d' = n / d * 2^k for some k and d' <= n' < 2 * d'.
RECURSIVE Normalised(_, _)
Normalised(n, d) ==
    IF n < d THEN Normalised(2 * n, d)
    ELSE IF n >= 2 * d THEN Normalised(n, 2 * d)
    ELSE <<n, d>>

\* Long division of r / d (r < d) to `bits` more binary digits: the remainder
\* left and whether the last digit produced was a one.
RECURSIVE Divide(_, _, _, _)
Divide(r, d, bits, odd) ==
    IF bits = 0 THEN <<r, odd>>
    ELSE IF 2 * r >= d THEN Divide(2 * r - d, d, bits - 1, TRUE)
    ELSE Divide(2 * r, d, bits - 1, FALSE)

\* float(n / d) against n / d for n, d > 0: 1 when the nearest double
\* (ties to even) is the larger, -1 when it is the smaller, 0 when n / d is
\* a double.
FloatDir(n, d) ==
    LET nd   == Normalised(n, d)
        left == Divide(nd[1] - nd[2], nd[2], MantissaBits, FALSE)
        r    == left[1]
    IN IF r = 0 THEN 0
       ELSE IF 2 * r > nd[2] THEN 1
       ELSE IF 2 * r < nd[2] THEN -1
       ELSE IF left[2] THEN 1 ELSE -1

\* Rounding that drops the digits beyond `places` (used only to show that the
\* claims depend on the rounding).
PyRoundTruncating(units, places) ==
    LET q == Pow10(FracDigits - places)
        m == (Abs(units) \div q) * q
    IN IF units < 0 THEN 0 - m ELSE m

\* round(float(units / Scale), places), in units: the double nearest the
\* decimal is rounded correctly to `places` digits, so a decimal tie goes the
\* way the double lies from it, and to the even digit when the double is the
\* tie itself.
PyRound(units, places) ==
    IF places >= FracDigits THEN units
    ELSE LET q   == Pow10(FracDigits - places)
             a   == Abs(units)
             n   == a \div q
             rem == a % q
             dir == FloatDir(a, Scale)
             up  == IF 2 * rem # q THEN 2 * rem > q
                    ELSE IF dir # 0 THEN dir > 0
                    ELSE n % 2 = 1
             m   == (IF up THEN n + 1 ELSE n) * q
         IN IF units < 0 THEN 0 - m ELSE m

\* float(v): the number of a float, an int or a numeric str; ValueError for
\* any other str and TypeError for None and for a datetime.
ToFloat(v) ==
    IF IsNumber(v) THEN [raised |-> FALSE, units |-> NumberUnits(v)]
    ELSE IF v.type = "str" /\ ParseDecimal(v.chars).ok
    THEN [raised |-> FALSE, units |-> ParseDecimal(v.chars).units]
    ELSE [raised |-> TRUE, units |-> 0]

\* What a comparator of compare.py gives: its dict, or an exception.
Check(passed) == [raised |-> FALSE, passed |-> passed]

CheckRaised(error) == [raised |-> TRUE, passed |-> FALSE, error |-> error]

\* rounded_equality(a, b, places)
rounded_equality(a, b, places) ==
    IF ToFloat(a).raised \/ ToFloat(b).raised THEN CheckRaised("ValueError or TypeError")
    ELSE Check(PyRound(ToFloat(a).units, places) = PyRound(ToFloat(b).units, places))

\* equals(left, right, normalize)
equals(left, right, normalize) ==
    LET l == IF normalize THEN Upper(RemoveChar(RemoveChar(ToStr(left), "-"), " "))
             ELSE ToStr(left)
        r == IF normalize THEN Upper(RemoveChar(RemoveChar(ToStr(right), "-"), " "))
             ELSE ToStr(right)
    IN Check(l = r)

\* int(v): an int is itself, a float is cut toward zero, a str of digits is
\* read; ValueError or TypeError otherwise.
ToInt(v) ==
    IF v.type = "int" THEN [raised |-> FALSE, value |-> v.value]
    ELSE IF v.type = "float"
    THEN [raised |-> FALSE,
          value |-> IF v.units < 0 THEN 0 - (Abs(v.units) \div Scale) ELSE v.units \div Scale]
    ELSE IF v.type = "str" /\ AllDigits(v.chars) /\ v.chars # <<>>
    THEN [raised |-> FALSE, value |-> DigitsValue(v.chars)]
    ELSE [raised |-> TRUE, value |-> 0]

\* date_in_range(date_val, min_date, max_offset_days); the chained comparison
\* evaluates int(max_offset_days) only when min_date <= date_val holds.
date_in_range(date_val, min_date, max_offset_days) ==
    LET d == _to_dt(date_val)
        m == _to_dt(min_date)
        n == ToInt(max_offset_days)
    IN IF d.raised \/ m.raised THEN CheckRaised("ValueError")
       ELSE IF d.value.aware # m.value.aware THEN CheckRaised("TypeError")
       ELSE IF ~DtLeq(m.value, d.value) THEN Check(FALSE)
       ELSE IF n.raised THEN CheckRaised("ValueError or TypeError")
       ELSE Check(DtLeq(d.value, PlusDays(m.value, n.value)))

(***************************************************************************)
(* Aggregation and decision                                                *)
(***************************************************************************)
NoSummary == <<>>

\* n/d rounded to the nearest integer (no n/d of the model is a tie).
RoundDiv(n, d) == (2 * n + d) \div (2 * d)

CountOf(results, S) == Cardinality({k \in DOMAIN results : k \in S})

\* langchain_web_demo.py line 172: the decision threshold, in percent.
PassThreshold == 90

\* No exception payload in the output.
NoPayload == [present |-> FALSE]

\* ExceptionAgent.build_email, which WorkflowEngine imports and this
\* repository does not define: addressee, subject and a body that lists the
\* failed checks.
ExceptionAgent_build_email(failed_checks) ==
    [present |-> TRUE, to |-> "addressee", subject |-> "subject",
     body |-> failed_checks]

\* run_langchain_workflow from result aggregation to the end.  Rates are in
\* tenths of a percent, as formatted with .1f.  The FAIL branch formats an
\* undefined name (success_rate, line 185) while it builds the exception
\* email, so the handler ends in its except clause with status "failed",
\* without the email and without storing results.
WebDemoFinish(results) ==
    LET passed_tests  == CountOf(results, {k \in DOMAIN results :
                                     results[k].passed /\ ~results[k].skipped})
        skipped_tests == CountOf(results, {k \in DOMAIN results : results[k].skipped})
        failed_tests  == CountOf(results, {k \in DOMAIN results :
                                     ~results[k].passed /\ ~results[k].skipped})
        total_tests   == Len(results)
        executed      == passed_tests + failed_tests
        meets         == IF executed > 0
                         THEN passed_tests * 100 >= PassThreshold * executed
                         ELSE 100 >= PassThreshold
        decision      == IF meets THEN "PASS" ELSE "FAIL"
    IN ("decision" :> decision)
       @@ ("passed_tests" :> passed_tests)
       @@ ("skipped_tests" :> skipped_tests)
       @@ ("failed_tests" :> failed_tests)
       @@ ("executed_tests" :> executed)
       @@ ("total_tests" :> total_tests)
       @@ ("execution_success_rate" :>
               IF executed > 0 THEN RoundDiv(passed_tests * 1000, executed) ELSE 1000)
       @@ ("overall_success_rate" :>
               IF total_tests > 0
               THEN RoundDiv((passed_tests + skipped_tests) * 1000, total_tests)
               ELSE 0)
       @@ ("current_status" :> IF decision = "FAIL" THEN "failed" ELSE "completed")
       @@ ("results_stored" :> (decision # "FAIL"))
       @@ ("exception_email" :> NoPayload)
       @@ ("error_message" :>
               IF decision = "FAIL" THEN "name 'success_rate' is not defined" ELSE "None")

\* _generate_enhanced_summary.  success_rate is in hundredths of a percent,
\* as rounded with round(success_rate, 2).
EnhancedFinish(results) ==
    LET total_tests  == Len(results)
        passed_tests == CountOf(results, {k \in DOMAIN results : results[k].passed})
        failed_tests == total_tests - passed_tests
    IN ("overall_status" :> IF failed_tests = 0 THEN "PASS" ELSE "FAIL")
       @@ ("total_tests" :> total_tests)
       @@ ("passed_tests" :> passed_tests)
       @@ ("failed_tests" :> failed_tests)
       @@ ("success_rate" :>
               IF total_tests > 0 THEN RoundDiv(passed_tests * 10000, total_tests) ELSE 0)
       @@ ("current_status" :> "completed")

\* DecisionAgent.decide, which WorkflowEngine imports and this repository
\* does not define: PASS exactly when nothing failed.
DecisionAgent_decide(failed) == IF failed = 0 THEN "PASS" ELSE "FAIL"

\* WorkflowEngine.run from `summary = self.agg.aggregate(checks)` on.
WorkflowEngineFinish(checks) ==
    LET passed == CountOf(checks, {k \in DOMAIN checks : checks[k].passed})
        failed == CountOf(checks, {k \in DOMAIN checks : ~checks[k].passed})
    IN ("decision" :> DecisionAgent_decide(failed))
       @@ ("total" :> Len(checks))
       @@ ("passed" :> passed)
       @@ ("failed" :> failed)
       @@ ("exception_email" :>
               IF DecisionAgent_decide(failed) = "FAIL"
               THEN ExceptionAgent_build_email(
                        {checks[k].test_id : k \in {j \in DOMAIN checks : ~checks[j].passed}})
               ELSE NoPayload)

Finish(results) ==
    IF entry = "web_demo" THEN WebDemoFinish(results)
    ELSE IF entry = "enhanced_pipeline" THEN EnhancedFinish(results)
    ELSE WorkflowEngineFinish(results)

\* The gate and enhanced-execution variables before (or without) their use.
EnhDataIdle ==
    /\ gate_log = <<>>
    /\ enhanced_results = <<>>
    /\ body_runs = [t \in EnhancedIds |-> 0]
    /\ summary = NoSummary

EnhIdle ==
    /\ context = EmptyContext
    /\ condition = <<>>
    /\ EnhDataIdle

(***************************************************************************)
(* Specification of the Sequencer alone                                    *)
(***************************************************************************)
\* No attempt of any test has been timed.
NoElapsed == [t \in TestIds |-> <<>>]

NoCall == [function |-> "none"]

NoOutcome == [status |-> "none"]

\* The call variables before (or without) a call.
CallIdle ==
    /\ tool_call = NoCall
    /\ tool_outcome = NoOutcome
    /\ sequence_history = <<>>
    /\ elapsed_log = NoElapsed

\* The run's data before (or without) a run.
RunDataIdle ==
    /\ session = "missing"
    /\ attempt = 0
    /\ last_error = NoError
    /\ test_results = [t \in TestIds |-> NoResult]
    /\ execution_results = <<>>
    /\ run_result = NoRunResult
    /\ invocations = [t \in TestIds |-> 0]
    /\ attempt_log = [t \in TestIds |-> <<>>]

RunIdle ==
    /\ entry = "none"
    /\ pc = "idle"
    /\ test_sequence = <<>>
    /\ idx = 1
    /\ RunDataIdle

InitSeq ==
    /\ \E n \in 1..MaxNodes : test_dag \in WellFormedGraphs(n)
    /\ sequence_result = NoSequenceResult
    /\ RunIdle
    /\ EnhIdle
    /\ CallIdle

RunSequencer ==
    /\ pc = "idle"
    /\ sequence_result.status = "none"
    /\ sequence_result' = TestSequenceTool_run(test_dag)
    /\ UNCHANGED <<test_dag, runVars, enhVars, callVars>>

NextSeq == RunSequencer

SpecSeq == InitSeq /\ [][NextSeq]_vars

(***************************************************************************)
(* Test execution: TestExecutionTool._run and _execute_with_retry          *)
(***************************************************************************)
\* What one attempt can do: the tool returns a passing or a failing
\* ToolResult, or something in TestExecutionTool._run raises.
Outcomes == {"passed", "failed"} \cup Errors

\* TestExecutionTool._run: the JSON it returns.  A ToolResult, passing or
\* not, is success: True; only an exception gives success: False.
TestExecutionTool_run(id, o) ==
    IF o \in Errors
    THEN [success |-> FALSE, error |-> o, result |-> ToolErrorDict(id, o)]
    ELSE [success |-> TRUE, error |-> NoError,
          result |-> ToolResultDict(id, o = "passed")]

\* The loop `for attempt in range(retry_count + 1)` with one attempt too many
\* (used only to show that the claims depend on the bound).
HasMoreAttemptsOneExtra(a, retry_count) == a <= retry_count

\* `for attempt in range(retry_count + 1)`: another attempt follows attempt a.
HasMoreAttempts(a, retry_count) == a < retry_count

(***************************************************************************)
(* A run: coordinate_test_execution or LangChainPipeline.process_ticket    *)
(***************************************************************************)
\* The preamble of the entry point up to the test loop: session checks,
\* get_test_sequence, and the return when there is nothing to execute.
GetTestSequence ==
    /\ pc = "start"
    /\ LET tool == TestSequenceTool_run(test_dag)
           seq  == get_test_sequence(tool, test_dag)
       IN IF entry = "coordinate_test_execution" /\ session # "ready"
          THEN /\ run_result' = ErrorReturn(IF session = "missing"
                                            THEN "Session not found"
                                            ELSE "Ticket type not determined", "")
               /\ pc' = "done"
               /\ UNCHANGED <<sequence_result, test_sequence>>
          ELSE /\ sequence_result' = tool
               /\ test_sequence' = seq
               /\ IF seq # <<>>
                  THEN pc' = "executing" /\ UNCHANGED run_result
                  ELSE /\ pc' = "done"
                       /\ run_result' =
                            IF entry = "process_ticket"
                            THEN ErrorReturn("No test sequence determined",
                                             "test_management")
                            ELSE Complete(<<>>, test_results)
    /\ UNCHANGED <<test_dag, entry, session, idx, attempt, last_error,
                   test_results, execution_results, invocations, attempt_log, enhVars,
                   callVars>>

\* One iteration of _execute_with_retry's loop for the current test (the
\* loop sleeps between iterations).  The iteration that ends the test also
\* returns through execute_test to the caller's loop, which appends the
\* result (coordinate_test_execution stores it once more); after the last
\* test of the sequence the caller builds its summary and returns.
AttemptStep ==
    /\ pc = "executing"
    /\ \E o \in Outcomes :
        LET info      == test_sequence[idx]
            id        == info.test_id
            tool      == TestExecutionTool_run(id, o)
            stored1   == store_test_result(test_results, id, tool.result)
            err       == IF tool.success THEN last_error ELSE tool.error
            exhausted == ~tool.success /\ ~HasMoreAttempts(attempt, info.retry_count)
            finished  == tool.success \/ exhausted
            returned  == IF tool.success THEN tool.result
                         ELSE RetriesExhaustedDict(id, info.retry_count, err)
            stored2   == IF exhausted THEN store_test_result(stored1, id, returned)
                         ELSE stored1
            stored3   == IF finished /\ entry = "coordinate_test_execution"
                         THEN store_test_result(stored2, id, returned)
                         ELSE stored2
            results   == Append(execution_results, returned)
        IN /\ invocations' = [invocations EXCEPT ![id] = @ + 1]
           /\ attempt_log' = [attempt_log EXCEPT ![id] = Append(@, o)]
           /\ test_results' = stored3
           /\ IF finished
              THEN /\ execution_results' = results
                   /\ idx' = idx + 1
                   /\ attempt' = 0
                   /\ last_error' = NoError
                   /\ IF idx = Len(test_sequence)
                      THEN /\ pc' = "done"
                           /\ run_result' = Complete(results, stored3)
                      ELSE UNCHANGED <<pc, run_result>>
              ELSE /\ attempt' = attempt + 1
                   /\ last_error' = err
                   /\ UNCHANGED <<execution_results, idx, pc, run_result>>
    /\ UNCHANGED <<seqVars, entry, session, test_sequence, enhVars>>

ExecuteAttempt == AttemptStep /\ UNCHANGED callVars

\* A test alone, and a test with one dependent, both retried up to r times.
RetryGraphs(r) ==
    { <<TestDAGNode(1, <<>>, DefaultParallel, r)>>,
      <<TestDAGNode(1, <<>>, DefaultParallel, r),
        TestDAGNode(2, <<1>>, DefaultParallel, r)>> }

InitRun ==
    /\ \/ \E n \in 1..MaxNodes : test_dag \in WellFormedGraphs(n)
       \/ \E r \in 1..MaxRetry : test_dag \in RetryGraphs(r)
    /\ sequence_result = NoSequenceResult
    /\ entry \in {"coordinate_test_execution", "process_ticket"}
    /\ session \in (IF entry = "process_ticket" THEN {"ready"}
                    ELSE {"missing", "no_ticket_type", "ready"})
    /\ pc = "start"
    /\ test_sequence = <<>>
    /\ idx = 1
    /\ attempt = 0
    /\ last_error = NoError
    /\ test_results = [t \in TestIds |-> NoResult]
    /\ execution_results = <<>>
    /\ run_result = NoRunResult
    /\ invocations = [t \in TestIds |-> 0]
    /\ attempt_log = [t \in TestIds |-> <<>>]
    /\ EnhIdle
    /\ CallIdle

NextRun == GetTestSequence \/ ExecuteAttempt

SpecRun == InitRun /\ [][NextRun]_vars

\* The preamble of the entry point ends: the only step that leaves
\* pc = "start" is GetTestSequence.
LeavePreamble == pc = "start" /\ pc' \in {"executing", "done"}

\* The entry point is one sequential piece of code: while a step of it is
\* possible, a step is taken (the only waiting is the one-second sleep
\* between attempts).  The fairness of the preamble is stated on pc, which
\* is what enables it.
InitRunFair == InitRun /\ Len(test_dag) < MaxNodes

SpecRunFair ==
    InitRunFair /\ [][NextRun]_vars /\ WF_pc(LeavePreamble) /\ WF_vars(ExecuteAttempt)

(***************************************************************************)
(* Specification of the gate as a function of condition and context        *)
(***************************************************************************)
InitGate ==
    /\ test_dag = <<>>
    /\ sequence_result = NoSequenceResult
    /\ entry = "should_execute_test"
    /\ pc = "gate"
    /\ test_sequence = <<>>
    /\ idx = 1
    /\ RunDataIdle
    /\ context \in Contexts
    /\ condition \in Conditions
    /\ EnhDataIdle
    /\ CallIdle

EvaluateGate ==
    /\ pc = "gate"
    /\ gate_log' = Append(gate_log,
                          [test_id |-> UnmappedId, condition |-> condition,
                           decision |-> EvaluateCondition(condition, context)])
    /\ pc' = "done"
    /\ UNCHANGED <<seqVars, entry, session, test_sequence, idx, attempt, last_error,
                   test_results, execution_results, run_result, invocations,
                   attempt_log, context, condition, enhanced_results, body_runs,
                   summary, callVars>>

NextGate == EvaluateGate

SpecGate == InitGate /\ [][NextGate]_vars

(***************************************************************************)
(* Specification of an enhanced run: the test loop of                      *)
(* EnhancedLangChainPipeline.process_ticket and of the web demo, from the  *)
(* sequence of tests to the summary                                        *)
(***************************************************************************)
\* Runs of consecutive test ids, as the Sequencer orders the default graph.
TestWindows ==
    { [k \in 1..n |-> TestInfo(TestDAGNode(first + k - 1, <<>>, DefaultParallel,
                                            DefaultRetryCount))] :
        first \in EnhancedIds, n \in 1..MaxTests }

InitEnhanced ==
    /\ test_dag = <<>>
    /\ sequence_result = NoSequenceResult
    /\ entry \in {"enhanced_pipeline", "web_demo"}
    /\ pc = "enhanced"
    /\ test_sequence \in {w \in TestWindows : w[Len(w)].test_id \in EnhancedIds}
    /\ idx = 1
    /\ RunDataIdle
    /\ context \in (IF entry = "web_demo" THEN {EmptyContext} ELSE PreparedContexts)
    /\ condition = <<>>
    /\ EnhDataIdle
    /\ CallIdle

\* One iteration of the test loop; the last one is followed by the summary.
ExecuteEnhancedTest ==
    /\ pc = "enhanced"
    /\ \E o \in BodyOutcomes :
        LET test_id == test_sequence[idx].test_id
            r       == execute_enhanced_test(test_id, context, o)
            results == Append(enhanced_results, r.result)
        IN /\ enhanced_results' = results
           /\ gate_log' = IF r.gated
                          THEN Append(gate_log,
                                      [test_id |-> test_id,
                                       condition |-> get_test_condition(test_id),
                                       decision |-> r.gate])
                          ELSE gate_log
           /\ body_runs' = IF r.ran_body
                           THEN [body_runs EXCEPT ![test_id] = @ + 1]
                           ELSE body_runs
           /\ idx' = idx + 1
           /\ IF idx = Len(test_sequence)
              THEN pc' = "done" /\ summary' = Finish(results)
              ELSE UNCHANGED <<pc, summary>>
    /\ UNCHANGED <<seqVars, entry, session, test_sequence, attempt, last_error,
                   test_results, execution_results, run_result, invocations,
                   attempt_log, context, condition, callVars>>

NextEnhanced == ExecuteEnhancedTest

SpecEnhanced == InitEnhanced /\ [][NextEnhanced]_vars

(***************************************************************************)
(* Specification of aggregation and decision over a given list of results  *)
(***************************************************************************)
\* p passed, then f failed, then s skipped results.
ResultList(p, f, s) ==
    [k \in 1..(p + f + s) |->
        IF k <= p THEN BodyResult(k, "passed")
        ELSE IF k <= p + f THEN BodyResult(k, "failed")
        ELSE SkippedResult(k)]

\* WorkflowEngine.run always has its three checks and no skipped one; the
\* enhanced pipeline returns before the loop when the sequence is empty.
ResultLists(who) ==
    { ResultList(c[1], c[2], c[3]) :
        c \in { d \in (0..MaxResults) \X (0..MaxResults) \X (0..MaxResults) :
                  /\ d[1] + d[2] + d[3] <= MaxResults
                  /\ who = "workflow_engine" => (d[3] = 0 /\ d[1] + d[2] >= 3)
                  /\ who = "enhanced_pipeline" => d[1] + d[2] + d[3] >= 1 } }

InitSummary ==
    /\ test_dag = <<>>
    /\ sequence_result = NoSequenceResult
    /\ entry \in {"web_demo", "enhanced_pipeline", "workflow_engine"}
    /\ pc = "aggregate"
    /\ test_sequence = <<>>
    /\ idx = 1
    /\ RunDataIdle
    /\ context = EmptyContext
    /\ condition = <<>>
    /\ gate_log = <<>>
    /\ enhanced_results \in ResultLists(entry)
    /\ body_runs = [t \in EnhancedIds |-> 0]
    /\ summary = NoSummary
    /\ CallIdle

AggregateResults ==
    /\ pc = "aggregate"
    /\ summary' = Finish(enhanced_results)
    /\ pc' = "done"
    /\ UNCHANGED <<seqVars, entry, session, test_sequence, idx, attempt, last_error,
                   test_results, execution_results, run_result, invocations,
                   attempt_log, context, condition, gate_log, enhanced_results,
                   body_runs, callVars>>

NextSummary == AggregateResults

SpecSummary == InitSummary /\ [][NextSummary]_vars

(***************************************************************************)
(* Specification of one call of GenericToolFactory.execute_tool            *)
(***************************************************************************)
\* The data operands a call is made with: nothing, text, blank text,
\* numbers as text and as floats, ISO dates well and ill formed, a datetime.
DataValues ==
    {None, Str(<<"a", "b">>), Str(<<" ">>), Str(<<"0", ".", "6", "5", "1">>),
     Milli(651), Milli(650), Str(FormatDate(2025, 10, 2)),
     Str(FormatDateTime(2025, 10, 2, 12, 0, 0) \o <<"Z">>),
     Str(FormatDate(2025, 9, 31)), Datetime(Ordinal(2025, 10, 2), 0, FALSE)}

SecondValues ==
    {None, Str(<<"A", "b">>), Str(<<"0", ".", "6", "5">>), Milli(650),
     Datetime(Ordinal(2025, 10, 1), 0, FALSE)}

\* The parameters a call is made with: none, empty, a value that is no
\* dict, and dicts with well and ill typed entries.
ParameterValues ==
    {None, EmptyDict, Str(<<"x">>),
     Dict([precision |-> PyInt(3)]),
     Dict([case_sensitive |-> FALSE, search_value |-> Str(<<"A">>)]),
     Dict([reference_date |-> Str(FormatDate(2025, 10, 1)), max_offset_days |-> PyInt(7)]),
     Dict([reference_date |-> Str(<<"x">>)]),
     Dict([reference_date |-> Milli(1000)]),
     Dict([max_offset_days |-> Str(<<"7">>)])}

\* What datetime.now() returns during the call.
Now == Datetime(Ordinal(2025, 10, 1), 3600, FALSE)

ExecuteToolCalls ==
    [function : {"execute_tool"}, tool_type : TestType \cup {"unknown"},
     test_id : {1}, data : DataValues, operation : OperationType,
     parameters : ParameterValues, additional_data : SecondValues, now : {Now}]

InitCall(calls) ==
    /\ test_dag = <<>>
    /\ sequence_result = NoSequenceResult
    /\ entry = "none"
    /\ pc = "call"
    /\ test_sequence = <<>>
    /\ idx = 1
    /\ RunDataIdle
    /\ EnhIdle
    /\ tool_call \in calls
    /\ tool_outcome = NoOutcome
    /\ sequence_history = <<>>
    /\ elapsed_log = NoElapsed

\* The call returns (or raises) and the caller holds the outcome.
Return(outcome) ==
    /\ tool_outcome' = outcome
    /\ pc' = "done"
    /\ UNCHANGED <<seqVars, entry, session, test_sequence, idx, attempt, last_error,
                   test_results, execution_results, run_result, invocations,
                   attempt_log, enhVars, tool_call, sequence_history, elapsed_log>>

InitDispatch == InitCall(ExecuteToolCalls)

ExecuteTool ==
    /\ pc = "call"
    /\ tool_call.function = "execute_tool"
    /\ Return(execute_tool(tool_call.tool_type, tool_call.test_id, tool_call.data,
                           tool_call.operation, tool_call.parameters,
                           tool_call.additional_data, tool_call.now))

NextDispatch == ExecuteTool

SpecDispatch == InitDispatch /\ [][NextDispatch]_vars

(***************************************************************************)
(* Specification of one call of a rounded-equality comparator              *)
(***************************************************************************)
\* The largest operand, in units of the last fractional digit, of the
\* operands enumerated one unit apart.
MaxUnits == 5

\* Numbers around the rounding boundaries of two places, decimal ties whose
\* doubles lie above, below and on the tie, numbers one unit apart, a
\* numeric str, a non-numeric str and None.
RoundedOperands ==
    {Milli(m) : m \in {645, 650, 651, 654, 655, 656, 125, 130, 375, 380,
                       2670, 2675, 2680, -2675, -2680, 1005, 1010}}
    \cup {Num(u) : u \in (0 - MaxUnits)..MaxUnits}
    \cup {Str(<<"0", ".", "6", "5", "1">>), Str(<<"a", "b">>), None}

RoundedCalls ==
    [function : {"rounded_equality", "CompareTool._rounded_equality"}, test_id : {1},
     a : RoundedOperands, b : RoundedOperands, places : 0..FracDigits]

InitRounded == InitCall(RoundedCalls)

\* compare.rounded_equality(a, b, places)
CallRoundedEquality ==
    /\ pc = "call"
    /\ tool_call.function = "rounded_equality"
    /\ Return(rounded_equality(tool_call.a, tool_call.b, tool_call.places))

\* CompareTool.execute(test_id, a, b, ROUNDED_EQUALITY, {"precision": places})
CallCompareToolRoundedEquality ==
    /\ pc = "call"
    /\ tool_call.function = "CompareTool._rounded_equality"
    /\ Return(CompareTool_execute(tool_call.test_id, tool_call.a, tool_call.b,
                                  "rounded_equality",
                                  Dict([precision |-> PyInt(tool_call.places)])))

NextRounded == CallRoundedEquality \/ CallCompareToolRoundedEquality

SpecRounded == InitRounded /\ [][NextRounded]_vars

(***************************************************************************)
(* Specification of one call of compare.equals                             *)
(***************************************************************************)
\* The longest str enumerated character by character.
MaxLen == 2

\* Letters of both cases and the separators "-", " " and "_".
Alphabet == {"A", "a", "-", " ", "_"}

RECURSIVE StringsUpTo(_)
StringsUpTo(n) ==
    IF n = 0 THEN {<<>>}
    ELSE StringsUpTo(n - 1)
         \cup {Append(w, c) : w \in {v \in StringsUpTo(n - 1) : Len(v) = n - 1}, c \in Alphabet}

\* Every short str over the alphabet, the account identifiers of the tests
\* written four ways, and two values that are no str.
EqualsOperands ==
    {Str(w) : w \in StringsUpTo(MaxLen)}
    \cup {Str(<<"A", "C", "C", "1", "2", "3", "4", "5">>),
          Str(<<"A", "C", "C", "-", "1", "2", "3", "4", "5">>),
          Str(<<"a", "c", "c", " ", "1", "2", "3", "4", "5">>),
          Str(<<"A", "C", "C", "_", "1", "2", "3", "4", "5">>),
          Milli(650), None}

EqualsCalls ==
    [function : {"equals"}, left : EqualsOperands, right : EqualsOperands,
     normalize : BOOLEAN]

InitEquals == InitCall(EqualsCalls)

CallEquals ==
    /\ pc = "call"
    /\ tool_call.function = "equals"
    /\ Return(equals(tool_call.left, tool_call.right, tool_call.normalize))

NextEquals == CallEquals

SpecEquals == InitEquals /\ [][NextEquals]_vars

(***************************************************************************)
(* Specification of one call of compare.date_in_range                      *)
(***************************************************************************)
\* The largest window, in days.
MaxOffset == 7

\* The days before and after 2025-10-01 that values are taken from.
DaysBefore == 2

DaysAfter == 10

\* The date d days after 2025-10-01 (before, when d is negative), as text.
DateText(d) ==
    IF d < 0 THEN FormatDate(2025, 9, 30 + d + 1) ELSE FormatDate(2025, 10, 1 + d)

\* Dates around the window, date-times on its edges, text that is no date,
\* a day that does not exist, None and a datetime object.
DateOperands ==
    {Str(DateText(d)) : d \in (0 - DaysBefore)..DaysAfter}
    \cup {Str(FormatDateTime(2025, 10, 1, 0, 0, 0)), Str(FormatDateTime(2025, 10, 8, 0, 0, 0)),
          Str(FormatDateTime(2025, 10, 8, 0, 0, 1)), Str(FormatDateTime(2025, 9, 30, 23, 59, 59)),
          Str(FormatDate(2025, 9, 31)), Str(<<"x">>), None,
          Datetime(Ordinal(2025, 10, 3), 43200, FALSE)}

MinDates ==
    {Str(FormatDate(2025, 10, 1)), Str(FormatDate(2025, 9, 30)),
     Str(FormatDateTime(2025, 10, 1, 12, 0, 0)), Str(<<"x">>)}

DateInRangeCalls ==
    [function : {"date_in_range"}, date_val : DateOperands, min_date : MinDates,
     max_offset_days : {PyInt(n) : n \in 0..MaxOffset} \cup {Str(<<"7">>), None}]

InitDate == InitCall(DateInRangeCalls)

CallDateInRange ==
    /\ pc = "call"
    /\ tool_call.function = "date_in_range"
    /\ Return(date_in_range(tool_call.date_val, tool_call.min_date,
                            tool_call.max_offset_days))

NextDate == CallDateInRange

SpecDate == InitDate /\ [][NextDate]_vars

(***************************************************************************)
(* Specification of one run of WorkflowEngine.run                          *)
(***************************************************************************)
\* A check of the run: the comparator's dict with its id.
NamedCheck(id, check) == [test_id |-> id, passed |-> check.passed]

\* WorkflowEngine.run without a document: the three checks in order, then
\* aggregation, decision and exception payload.  No call is inside a try,
\* so what a comparator raises leaves run.
WorkflowEngine_run(new_rate, approved_rate, approval_exists, modified_timestamp, effective_date) ==
    LET c1 == rounded_equality(new_rate, approved_rate, 2)
        c2 == Check(approval_exists)
        c3 == date_in_range(modified_timestamp, effective_date, PyInt(7))
        checks == <<NamedCheck("rate_match", c1), NamedCheck("approval_email_present", c2),
                    NamedCheck("effective_date_window", c3)>>
    IN IF c1.raised THEN [raised |-> TRUE, error |-> c1.error]
       ELSE IF c3.raised THEN [raised |-> TRUE, error |-> c3.error]
       ELSE [raised |-> FALSE, checks |-> checks, result |-> WorkflowEngineFinish(checks)]

\* The rates, timestamps and effective dates the data sources and the
\* ticket supply.
WorkflowCalls ==
    [function : {"WorkflowEngine.run"},
     new_rate : {Milli(650), Milli(651)},
     approved_rate : {Milli(650), Milli(600)},
     approval_exists : BOOLEAN,
     modified_timestamp : DateOperands,
     effective_date : MinDates]

InitWorkflow == InitCall(WorkflowCalls)

RunWorkflow ==
    /\ pc = "call"
    /\ tool_call.function = "WorkflowEngine.run"
    /\ Return(WorkflowEngine_run(tool_call.new_rate, tool_call.approved_rate,
                                 tool_call.approval_exists, tool_call.modified_timestamp,
                                 tool_call.effective_date))

NextWorkflow == RunWorkflow

SpecWorkflow == InitWorkflow /\ [][NextWorkflow]_vars

(***************************************************************************)
(* Specification of the Sequencer run repeatedly on one TestGraph          *)
(***************************************************************************)
\* How many times the Sequencer is run on the graph.
MaxRuns == 2

\* The parallel_execution flags of a graph: none set, all set, or those of
\* the odd test ids.
ParallelPatterns == {"none", "all", "odd"}

ParallelFlag(pattern, id) ==
    IF pattern = "none" THEN FALSE ELSE IF pattern = "all" THEN TRUE ELSE id % 2 = 1

WithParallel(nodes, pattern) ==
    [k \in DOMAIN nodes |->
        [nodes[k] EXCEPT !.parallel_execution = ParallelFlag(pattern, nodes[k].test_id)]]

\* A Sequencer that uses up the dependencies of the nodes it releases (used
\* only to show that the claims depend on the graph being left alone).
NodesAfterConsuming(nodes) ==
    [k \in DOMAIN nodes |-> [nodes[k] EXCEPT !.dependencies = <<>>]]

\* The nodes after _calculate_execution_order and _group_by_execution_phases:
\* in_degree, graph, queue, node_map and the phases are fresh locals of each
\* call, and no attribute of test_dag or of a node is assigned.
NodesAfterSequencing(nodes) == nodes

InitRerun ==
    /\ \E n \in 1..MaxNodes : \E pattern \in ParallelPatterns :
           test_dag \in {WithParallel(g, pattern) : g \in WellFormedGraphs(n)}
    /\ sequence_result = NoSequenceResult
    /\ RunIdle
    /\ EnhIdle
    /\ tool_call = [function |-> "get_test_sequence", test_dag |-> test_dag]
    /\ tool_outcome = NoOutcome
    /\ sequence_history = <<>>
    /\ elapsed_log = NoElapsed

\* One more run of the Sequencer on the graph as the last run left it.
RerunSequencer ==
    /\ Len(sequence_history) < MaxRuns
    /\ sequence_result' = TestSequenceTool_run(test_dag)
    /\ sequence_history' = Append(sequence_history, TestSequenceTool_run(test_dag))
    /\ test_dag' = NodesAfterSequencing(test_dag)
    /\ UNCHANGED <<runVars, enhVars, tool_call, tool_outcome, elapsed_log>>

NextRerun == RerunSequencer

SpecRerun == InitRerun /\ [][NextRerun]_vars

(***************************************************************************)
(* Specification of a run whose tool calls take time                       *)
(***************************************************************************)
\* Line 188: test_info.get("timeout", 60), in seconds.
DefaultTimeout == 60

\* What a tool call can take: the timeout exactly, or a second more.
ElapsedTimes == {DefaultTimeout, DefaultTimeout + 1}

\* Two tests of one parallel phase, neither depending on the other, each
\* retried up to r times.
TimedGraphs(r) == { <<TestDAGNode(1, <<>>, TRUE, r), TestDAGNode(2, <<>>, TRUE, r)>> }

InitTimed ==
    /\ \E r \in 1..MaxRetry : test_dag \in TimedGraphs(r)
    /\ sequence_result = NoSequenceResult
    /\ entry \in {"coordinate_test_execution", "process_ticket"}
    /\ session = "ready"
    /\ pc = "start"
    /\ test_sequence = <<>>
    /\ idx = 1
    /\ attempt = 0
    /\ last_error = NoError
    /\ test_results = [t \in TestIds |-> NoResult]
    /\ execution_results = <<>>
    /\ run_result = NoRunResult
    /\ invocations = [t \in TestIds |-> 0]
    /\ attempt_log = [t \in TestIds |-> <<>>]
    /\ EnhIdle
    /\ tool_call = [function |-> "execute_test", timeout |-> DefaultTimeout]
    /\ tool_outcome = NoOutcome
    /\ sequence_history = <<>>
    /\ elapsed_log = NoElapsed

\* One iteration of _execute_with_retry's loop whose tool call takes some
\* time.  execute_test passes `timeout` to _execute_with_retry, which never
\* reads it: the iteration is the untimed one whatever the time taken.
TimedAttempt ==
    /\ AttemptStep
    /\ \E e \in ElapsedTimes :
           elapsed_log' = [elapsed_log EXCEPT ![test_sequence[idx].test_id] = Append(@, e)]
    /\ UNCHANGED <<tool_call, tool_outcome, sequence_history>>

NextTimed == GetTestSequence \/ TimedAttempt

SpecTimed == InitTimed /\ [][NextTimed]_vars

(***************************************************************************)
(* Specification of a run over a TestGraph that nothing validated          *)
(***************************************************************************)
\* The test_ids of n nodes up to renaming: the first node is 1 and each
\* later node repeats an earlier id or takes the next unused one.
IdPatterns(n) ==
    { f \in [1..n -> 1..n] :
        /\ f[1] = 1
        /\ \A i \in 2..n : \E j \in 1..(i - 1) : f[i] <= f[j] + 1 }

\* Graphs of n nodes, each with at most one dependency, in which two nodes
\* share a test_id or a dependency names no node (n + 1 is never a node).
SparseMalformedGraphs(n) ==
    { g \in { [i \in 1..n |-> TestDAGNode(f[i], d[i], DefaultParallel, DefaultRetryCount)] :
                f \in IdPatterns(n),
                d \in [1..n -> {<<>>} \cup {<<t>> : t \in 1..(n + 1)}] } :
        \/ \E i, j \in DOMAIN g : i # j /\ g[i].test_id = g[j].test_id
        \/ \E i \in DOMAIN g : \E t \in Range(g[i].dependencies) :
               \A j \in DOMAIN g : g[j].test_id # t }

\* Malformed graphs with two dependencies on a node: a duplicated id whose
\* two nodes list different dependencies, and a node depending on a present
\* and on an absent id.
DenseMalformedGraphs ==
    { <<TestDAGNode(1, <<>>, DefaultParallel, DefaultRetryCount),
        TestDAGNode(2, <<1, 2>>, DefaultParallel, DefaultRetryCount),
        TestDAGNode(2, <<1>>, DefaultParallel, DefaultRetryCount)>>,
      <<TestDAGNode(1, <<>>, DefaultParallel, DefaultRetryCount),
        TestDAGNode(2, <<1>>, DefaultParallel, DefaultRetryCount),
        TestDAGNode(2, <<>>, DefaultParallel, DefaultRetryCount)>>,
      <<TestDAGNode(1, <<>>, DefaultParallel, DefaultRetryCount),
        TestDAGNode(2, <<1, 3>>, DefaultParallel, DefaultRetryCount)>> }

InitUnvalidated ==
    /\ \/ \E n \in 1..MaxNodes : test_dag \in SparseMalformedGraphs(n)
       \/ test_dag \in DenseMalformedGraphs
       \/ test_dag \in RetryGraphs(1)
    /\ sequence_result = NoSequenceResult
    /\ entry \in {"coordinate_test_execution", "process_ticket"}
    /\ session = "ready"
    /\ pc = "start"
    /\ test_sequence = <<>>
    /\ idx = 1
    /\ attempt = 0
    /\ last_error = NoError
    /\ test_results = [t \in TestIds |-> NoResult]
    /\ execution_results = <<>>
    /\ run_result = NoRunResult
    /\ invocations = [t \in TestIds |-> 0]
    /\ attempt_log = [t \in TestIds |-> <<>>]
    /\ EnhIdle
    /\ CallIdle

NextUnvalidated == GetTestSequence \/ ExecuteAttempt

SpecUnvalidated == InitUnvalidated /\ [][NextUnvalidated]_vars

(***************************************************************************)
(* Specification of one readiness query on a session                       *)
(***************************************************************************)
\* A dependency counted as met as soon as it has a stored result (used only
\* to show that the claims depend on the passed flag being read).
DependencyCompleted(results, dep) == results[dep] # NoResult

\* TestDependencyTool._run lines 183-200: the dependency has a stored result
\* and dep_result.get("passed", False) is true.
DependencyMet(results, dep) == results[dep] # NoResult /\ results[dep].passed

\* TestDependencyTool._run: the JSON it returns.
TestDependencyTool_run(nodes, results, test_id) ==
    IF session # "ready"
    THEN [status |-> "returned", ready |-> FALSE,
          error |-> "Session or ticket type not found"]
    ELSE IF test_id \notin {nodes[k].test_id : k \in DOMAIN nodes}
    THEN [status |-> "returned", ready |-> FALSE, error |-> "Test not found in DAG"]
    ELSE LET test_node == nodes[CHOOSE k \in DOMAIN nodes :
                                   /\ nodes[k].test_id = test_id
                                   /\ \A j \in DOMAIN nodes :
                                         nodes[j].test_id = test_id => k <= j]
         IN [status |-> "returned",
             ready  |-> \A i \in DOMAIN test_node.dependencies :
                           DependencyMet(results, test_node.dependencies[i]),
             error  |-> ""]

\* TestManagementAgent.get_next_executable_tests: the tests of the sequence
\* whose readiness query answers ready, in sequence order.
RECURSIVE ReadyOf(_, _, _)
ReadyOf(test_sequence_, nodes, results) ==
    IF test_sequence_ = <<>> THEN <<>>
    ELSE (IF TestDependencyTool_run(nodes, results, Head(test_sequence_).test_id).ready
          THEN <<Head(test_sequence_).test_id>> ELSE <<>>)
         \o ReadyOf(Tail(test_sequence_), nodes, results)

get_next_executable_tests(nodes, results) ==
    [status |-> "returned",
     executable |-> ReadyOf(get_test_sequence(TestSequenceTool_run(nodes), nodes),
                            nodes, results)]

\* A chain of two tests, and three tests with no, one and two dependencies.
ReadyGraphs ==
    { <<TestDAGNode(1, <<>>, DefaultParallel, DefaultRetryCount),
        TestDAGNode(2, <<1>>, DefaultParallel, DefaultRetryCount)>>,
      <<TestDAGNode(1, <<>>, DefaultParallel, DefaultRetryCount),
        TestDAGNode(2, <<1>>, DefaultParallel, DefaultRetryCount),
        TestDAGNode(3, <<1, 2>>, DefaultParallel, DefaultRetryCount)>> }

\* The result sets a session can hold: each test pending, passed or failed.
StoredResultSets ==
    [TestIds -> {"pending", "passed", "failed"}]

ResultsOf(stored) ==
    [t \in TestIds |-> IF stored[t] = "pending" THEN NoResult
                       ELSE ToolResultDict(t, stored[t] = "passed")]

InitReady ==
    /\ test_dag \in ReadyGraphs
    /\ sequence_result = NoSequenceResult
    /\ entry = "none"
    /\ pc = "call"
    /\ test_sequence = <<>>
    /\ idx = 1
    /\ session \in {"missing", "no_ticket_type", "ready"}
    /\ \E stored \in StoredResultSets :
           /\ session = "missing" => \A t \in TestIds : stored[t] = "pending"
           /\ test_results = ResultsOf(stored)
    /\ attempt = 0
    /\ last_error = NoError
    /\ execution_results = <<>>
    /\ run_result = NoRunResult
    /\ invocations = [t \in TestIds |-> 0]
    /\ attempt_log = [t \in TestIds |-> <<>>]
    /\ EnhIdle
    /\ \/ \E t \in TestIds :
              tool_call = [function |-> "check_test_dependencies", test_id |-> t]
       \/ tool_call = [function |-> "get_next_executable_tests"]
    /\ tool_outcome = NoOutcome
    /\ sequence_history = <<>>
    /\ elapsed_log = NoElapsed

CheckTestDependencies ==
    /\ pc = "call"
    /\ tool_call.function = "check_test_dependencies"
    /\ Return(TestDependencyTool_run(test_dag, test_results, tool_call.test_id))

GetNextExecutableTests ==
    /\ pc = "call"
    /\ tool_call.function = "get_next_executable_tests"
    /\ Return(get_next_executable_tests(test_dag, test_results))

NextReady == CheckTestDependencies \/ GetNextExecutableTests

SpecReady == InitReady /\ [][NextReady]_vars

(***************************************************************************)
(* Specification of an enhanced run over test_16 and three of the tests it *)
(* depends on, from the sequencing of the graph to the summary             *)
(***************************************************************************)
\* DEFAULT_TEST_DAGS restricted to test_3 (condition Always), test_4 (Engage
\* = No), test_5 (Engage = Yes) and test_16, which depends on them.
ConditionalGraph ==
    << TestDAGNode(3, <<>>, TRUE, DefaultRetryCount),
       TestDAGNode(4, <<>>, TRUE, DefaultRetryCount),
       TestDAGNode(5, <<>>, TRUE, DefaultRetryCount),
       TestDAGNode(16, <<3, 4, 5>>, FALSE, DefaultRetryCount) >>

InitConditional ==
    /\ test_dag = ConditionalGraph
    /\ sequence_result = NoSequenceResult
    /\ entry = "enhanced_pipeline"
    /\ pc = "start"
    /\ test_sequence = <<>>
    /\ idx = 1
    /\ RunDataIdle
    /\ context \in PreparedContexts
    /\ condition = <<>>
    /\ EnhDataIdle
    /\ CallIdle

\* Step 3 of EnhancedLangChainPipeline.process_ticket.
SequenceEnhancedTests ==
    /\ pc = "start"
    /\ entry = "enhanced_pipeline"
    /\ sequence_result' = TestSequenceTool_run(test_dag)
    /\ test_sequence' = get_test_sequence(TestSequenceTool_run(test_dag), test_dag)
    /\ pc' = IF get_test_sequence(TestSequenceTool_run(test_dag), test_dag) # <<>>
             THEN "enhanced" ELSE "done"
    /\ UNCHANGED <<test_dag, entry, session, idx, attempt, last_error, test_results,
                   execution_results, run_result, invocations, attempt_log,
                   enhVars, callVars>>

NextConditional == SequenceEnhancedTests \/ ExecuteEnhancedTest

SpecConditional == InitConditional /\ [][NextConditional]_vars

(***************************************************************************)
(* Specification of LangChainPipeline.process_ticket from the data         *)
(* extraction step on                                                      *)
(***************************************************************************)
\* How the extraction goes: it succeeds, the extraction tool reports an
\* error, extract_data itself raises, or the ticket type has no extraction
\* schema.
ExtractionOutcomes == {"ok", "tool_error", "raised", "no_schema"}

\* DataAgent.extract_data: the dict it returns ("absent" when the dict has
\* no "status" key).
extract_data(outcome) ==
    IF outcome = "no_schema"
    THEN [status |-> "absent", error |-> "No extraction schema found",
          extraction_success |-> FALSE]
    ELSE IF outcome = "raised"
    THEN [status |-> "data_extraction_error", error |-> "E1",
          extraction_success |-> FALSE]
    ELSE [status |-> "data_extraction_complete", error |-> "",
          extraction_success |-> (outcome = "ok")]

\* A ticket type without extraction schema has no test graph either.
InitExtract ==
    /\ \/ /\ \/ \E n \in 1..MaxNodes : test_dag \in WellFormedGraphs(n)
             \/ \E r \in 1..MaxRetry : test_dag \in RetryGraphs(r)
          /\ \E o \in ExtractionOutcomes \ {"no_schema"} :
                 tool_call = [function |-> "process_ticket", extraction |-> o]
       \/ /\ test_dag = <<>>
          /\ tool_call = [function |-> "process_ticket", extraction |-> "no_schema"]
    /\ sequence_result = NoSequenceResult
    /\ entry = "process_ticket"
    /\ session = "ready"
    /\ pc = "extract"
    /\ test_sequence = <<>>
    /\ idx = 1
    /\ attempt = 0
    /\ last_error = NoError
    /\ test_results = [t \in TestIds |-> NoResult]
    /\ execution_results = <<>>
    /\ run_result = NoRunResult
    /\ invocations = [t \in TestIds |-> 0]
    /\ attempt_log = [t \in TestIds |-> <<>>]
    /\ EnhIdle
    /\ tool_outcome = NoOutcome
    /\ sequence_history = <<>>
    /\ elapsed_log = NoElapsed

\* Step 2 of process_ticket: extract_data and the check of its status.
ExtractData ==
    /\ pc = "extract"
    /\ tool_outcome' = extract_data(tool_call.extraction)
    /\ IF extract_data(tool_call.extraction).status = "error"
       THEN /\ run_result' = ErrorReturn(extract_data(tool_call.extraction).error,
                                         "data_extraction")
            /\ pc' = "done"
       ELSE /\ pc' = "start"
            /\ UNCHANGED run_result
    /\ UNCHANGED <<seqVars, entry, session, test_sequence, idx, attempt, last_error,
                   test_results, execution_results, invocations, attempt_log,
                   enhVars, tool_call, sequence_history, elapsed_log>>

NextExtract == ExtractData \/ GetTestSequence \/ ExecuteAttempt

SpecExtract == InitExtract /\ [][NextExtract]_vars

(***************************************************************************)
(* Graph predicates used to state the claims (independent of the sort)     *)
(***************************************************************************)
NodeIds(nodes) == {nodes[k].test_id : k \in DOMAIN nodes}

UniqueIds(nodes) ==
    \A j, k \in DOMAIN nodes : nodes[j].test_id = nodes[k].test_id => j = k

DepsResolve(nodes) ==
    \A k \in DOMAIN nodes : Range(nodes[k].dependencies) \subseteq NodeIds(nodes)

\* The ids some node with test_id in S lists as a dependency.
DirectDeps(nodes, S) ==
    UNION {Range(nodes[k].dependencies) : k \in {j \in DOMAIN nodes : nodes[j].test_id \in S}}

\* Everything reachable from S along dependency edges in 1..k steps.
RECURSIVE DepsWithin(_, _, _)
DepsWithin(nodes, S, k) ==
    IF k = 0 THEN {}
    ELSE LET d == DirectDeps(nodes, S)
         IN d \cup DepsWithin(nodes, d, k - 1)

TransitiveDeps(nodes, id) == DepsWithin(nodes, {id}, Len(nodes))

Cyclic(nodes) == \E id \in NodeIds(nodes) : id \in TransitiveDeps(nodes, id)

Positions(order, id) == {p \in DOMAIN order : order[p] = id}

Sequenced == sequence_result.status # "none"

(***************************************************************************)
(* C1: for every graph with unique ids, resolvable dependencies and no     *)
(* cycle, the Sequencer returns an order that holds every node's test_id   *)
(* exactly once and places each node strictly after all its dependencies.  *)
(***************************************************************************)
C1_TopologicalOrder ==
    (Sequenced /\ UniqueIds(test_dag) /\ DepsResolve(test_dag) /\ ~Cyclic(test_dag))
    => /\ sequence_result.status = "success"
       /\ Len(sequence_result.execution_order) = Len(test_dag)
       /\ \A k \in DOMAIN test_dag :
            LET here == Positions(sequence_result.execution_order, test_dag[k].test_id)
            IN /\ Cardinality(here) = 1
               /\ \A dep \in Range(test_dag[k].dependencies) :
                    \A p \in Positions(sequence_result.execution_order, dep) :
                       \A q \in here : p < q

\* A sorted chain listed against its dependency direction: node 1 depends on
\* node 2, node 2 on the last node, so the order must reverse the list.
C1_Witness ==
    /\ Sequenced
    /\ Len(test_dag) = MaxNodes
    /\ ~Cyclic(test_dag)
    /\ test_dag[1].dependencies = <<2>>
    /\ test_dag[2].dependencies = <<Len(test_dag)>>
    /\ sequence_result.status = "success"
    /\ sequence_result.execution_order[Len(test_dag)] = 1

(***************************************************************************)
(* C2: for every graph whose dependency relation has a cycle (a self-loop  *)
(* included) the Sequencer reports the circular-dependency error and       *)
(* returns no execution order, neither a partial nor an empty-success one. *)
(***************************************************************************)
C2_CycleReported ==
    (Sequenced /\ Cyclic(test_dag))
    => /\ sequence_result.status = "error"
       /\ sequence_result.error = CircularMessage
       /\ sequence_result.execution_order = <<>>
       /\ sequence_result.execution_phases = <<>>

\* A graph with an acyclic part (node 1) whose last node depends on itself:
\* Kahn's loop emits the acyclic part, then the length check rejects it.
C2_Witness ==
    /\ Sequenced
    /\ Len(test_dag) > 1
    /\ test_dag[1].dependencies = <<>>
    /\ Len(test_dag) \in Range(test_dag[Len(test_dag)].dependencies)
    /\ sequence_result.status = "error"

\* The result the caller got back for test id (NoResult until it finished).
ReturnedFor(id) ==
    IF \E k \in DOMAIN execution_results : execution_results[k].test_id = id
    THEN execution_results[CHOOSE k \in DOMAIN execution_results :
                              execution_results[k].test_id = id]
    ELSE NoResult

Finished(id) == ReturnedFor(id) # NoResult

RetryCountOf(id) == NodeOf(test_dag, id).retry_count

(***************************************************************************)
(* C3: if a test depends on a test that finished FAILED, the dependent's   *)
(* tool is never invoked.  The run loops execute every sequenced test      *)
(* without looking at its dependencies, so this does not hold.             *)
(***************************************************************************)
C3_BlockedDependentNeverRuns ==
    \A k \in DOMAIN test_dag :
        \A dep \in Range(test_dag[k].dependencies) :
            (Finished(dep) /\ ~ReturnedFor(dep).passed)
            => invocations[test_dag[k].test_id] = 0

(***************************************************************************)
(* C4: when the first k <= retry_count attempts of a test fail (k >= 1)    *)
(* and attempt k+1 passes, the result is passed and records attempts = k+1.*)
(* The result returned on success is the tool's result, which has no       *)
(* attempts key, so this does not hold.                                    *)
(***************************************************************************)
C4_AttemptsRecordedOnSuccess ==
    \A id \in TestIds :
        (/\ Finished(id)
         /\ Len(attempt_log[id]) >= 2
         /\ \A i \in 1..(Len(attempt_log[id]) - 1) : attempt_log[id][i] \in Errors
         /\ attempt_log[id][Len(attempt_log[id])] = "passed")
        => /\ ReturnedFor(id).passed
           /\ ReturnedFor(id).attempts = Len(attempt_log[id])

(***************************************************************************)
(* C5: a test with retry_count = n is attempted at least once and at most  *)
(* n+1 times, no attempt follows one that succeeded, and when all n+1      *)
(* attempts fail the result is failed with attempts = n+1 and the error of *)
(* the last attempt.                                                       *)
(***************************************************************************)
C5_RetryBound ==
    \A id \in NodeIds(test_dag) :
        LET log == attempt_log[id]
            n   == RetryCountOf(id)
        IN /\ Len(log) <= n + 1
           /\ \A i \in 1..(Len(log) - 1) : log[i] \in Errors
           /\ Finished(id) => Len(log) >= 1
           /\ (Len(log) = n + 1 /\ \A i \in DOMAIN log : log[i] \in Errors)
              => /\ Finished(id)
                 /\ ~ReturnedFor(id).passed
                 /\ ReturnedFor(id).attempts = n + 1
                 /\ ReturnedFor(id).error = log[n + 1]
                 /\ session # "missing" => test_results[id] = ReturnedFor(id)

\* Every allowed attempt was used, and the last error differs from the first.
C5_Witness ==
    \E id \in NodeIds(test_dag) :
        /\ RetryCountOf(id) = MaxRetry
        /\ Len(attempt_log[id]) = MaxRetry + 1
        /\ attempt_log[id][1] = "E1"
        /\ attempt_log[id][MaxRetry + 1] = "E2"
        /\ ReturnedFor(id).error = "E2"
        /\ ReturnedFor(id).attempts = MaxRetry + 1

(***************************************************************************)
(* C6: a run over a cyclic graph ends as an error, never as a completed    *)
(* run.  coordinate_test_execution receives the empty sequence and reports *)
(* a completed run whose summary is PASS, so this does not hold.           *)
(***************************************************************************)
C6_CyclicRunIsError ==
    (pc = "done" /\ Cyclic(test_dag))
    => /\ run_result.status = "error"
       /\ run_result.overall_status # "PASS"

(***************************************************************************)
(* Predicates on enhanced runs used to state the claims                    *)
(***************************************************************************)
\* The result recorded for test id in the enhanced run.
EnhancedResultFor(id) ==
    enhanced_results[CHOOSE k \in DOMAIN enhanced_results :
                        enhanced_results[k].test_id = id]

ExecutedAndFailed ==
    {k \in DOMAIN enhanced_results :
        ~enhanced_results[k].skipped /\ ~enhanced_results[k].passed}

ExecutedAndPassed ==
    {k \in DOMAIN enhanced_results :
        ~enhanced_results[k].skipped /\ enhanced_results[k].passed}

Skipped == {k \in DOMAIN enhanced_results : enhanced_results[k].skipped}

\* The predicates the gate recognizes: eight fixed strings and the strings
\* that begin with "Product class =".
Recognized(cond) ==
    \/ cond \in { Text("Always"),
                  KeyEquals("Engage", "No"),
                  KeyEquals("Engage", "Yes"),
                  KeyEquals("Order Type", "FVEQ New Issuance"),
                  KeyEquals("Order Type", "FI New Issuance"),
                  Text("Order Type /= Approved"),
                  Text("Order taken by MFO"),
                  Text("Products in scope for bilateral agreement") }
    \/ (Len(cond) >= 3 /\ cond[1] = "Product class" /\ cond[2] = " " /\ cond[3] = "=")

DecisionOf(s) ==
    IF "decision" \in DOMAIN s THEN s["decision"] ELSE s["overall_status"]

FailedOf(s) ==
    IF "failed_tests" \in DOMAIN s THEN s["failed_tests"] ELSE s["failed"]

(***************************************************************************)
(* C7: whenever the gate evaluates false for a test, the test body is not  *)
(* run, the test's result is skipped and not failed, and the summary       *)
(* counts it in the total but not among the failed tests.                  *)
(***************************************************************************)
C7_GateFalseSkips ==
    \A g \in DOMAIN gate_log :
        ~gate_log[g].decision
        => LET id == gate_log[g].test_id
           IN /\ body_runs[id] = 0
              /\ EnhancedResultFor(id).skipped
              /\ EnhancedResultFor(id).passed
              /\ pc = "done"
                 => /\ summary["total_tests"] = Len(test_sequence)
                    /\ summary["failed_tests"] = Cardinality(ExecutedAndFailed)

\* A finished enhanced-pipeline run in which one test was skipped by the
\* gate and another one ran and failed.
C7_Witness ==
    /\ pc = "done"
    /\ entry = "enhanced_pipeline"
    /\ \E g \in DOMAIN gate_log : ~gate_log[g].decision
    /\ Cardinality(ExecutedAndFailed) = 1
    /\ Cardinality(Skipped) = 1
    /\ summary["total_tests"] = 2
    /\ summary["failed_tests"] = 1

(***************************************************************************)
(* C8: for every condition string that is not a recognized predicate, and  *)
(* for every context, the gate decides to execute.                         *)
(***************************************************************************)
C8_FailOpen ==
    \A g \in DOMAIN gate_log :
        ~Recognized(gate_log[g].condition) => gate_log[g].decision

\* An unrecognized value of a recognized key, on a context for which the
\* recognized "Engage = Yes" is false.
C8_Witness ==
    /\ pc = "done"
    /\ condition = KeyEquals("Engage", "Maybe")
    /\ context.engage_status = Text("No")
    /\ ~EvaluateCondition(KeyEquals("Engage", "Yes"), context)
    /\ gate_log[1].decision

(***************************************************************************)
(* C9: every summary of a run reports a skipped count and both rates, and  *)
(* counts each test in exactly one of passed, failed and skipped.  The     *)
(* enhanced pipeline's summary has no skipped count, counts skipped tests  *)
(* as passed and reports a single rate, so this does not hold.             *)
(***************************************************************************)
C9_SummaryPartition ==
    (pc = "done" /\ entry \in {"web_demo", "enhanced_pipeline"})
    => /\ {"skipped_tests", "execution_success_rate", "overall_success_rate"}
             \subseteq DOMAIN summary
       /\ summary["passed_tests"] = Cardinality(ExecutedAndPassed)
       /\ summary["failed_tests"] = Cardinality(ExecutedAndFailed)
       /\ summary["skipped_tests"] = Cardinality(Skipped)
       /\ summary["total_tests"] =
             summary["passed_tests"] + summary["failed_tests"] + summary["skipped_tests"]
       /\ (summary["passed_tests"] + summary["failed_tests"] > 0)
          => summary["execution_success_rate"] =
                RoundDiv(summary["passed_tests"] * 1000,
                         summary["passed_tests"] + summary["failed_tests"])
       /\ summary["overall_success_rate"] =
             RoundDiv((summary["passed_tests"] + summary["skipped_tests"]) * 1000,
                      summary["total_tests"])

C11_FailHasPayload ==
    (pc = "done" /\ entry \in {"web_demo", "workflow_engine"})
    => /\ DecisionOf(summary) = "FAIL"
          => /\ ("current_status" \in DOMAIN summary
                    => summary["current_status"] = "completed")
             /\ summary["exception_email"].present
             /\ {"to", "subject", "body"} \subseteq DOMAIN summary["exception_email"]
       /\ DecisionOf(summary) = "PASS" => ~summary["exception_email"].present

(***************************************************************************)
(* Claims about the generic tools                                          *)
(***************************************************************************)
TwoValueTools == {"compare", "equality_check", "rounded_equality"}

MissingOperandMessages ==
    {"Compare tool requires two data values", "Equality check requires two data values",
     "Rounded equality check requires two data values"}

Dispatched == pc = "done" /\ tool_call.function = "execute_tool"

\* C12: whatever the tool type, operation, parameters and data, execute_tool
\* returns one ToolResult and no exception leaves it; a two-value tool called
\* without its second operand returns passed = false with the message that
\* names the missing operand.
C12_AlwaysOneToolResult ==
    Dispatched
    => /\ ~tool_outcome.raised
       /\ tool_outcome.result.test_id = tool_call.test_id
       /\ tool_outcome.result.passed \in BOOLEAN
       /\ (tool_call.tool_type \in TwoValueTools /\ tool_call.additional_data = None)
          => /\ ~tool_outcome.result.passed
             /\ tool_outcome.result.message[1] \in MissingOperandMessages

\* A two-value tool was called without its second operand.
C12_Witness ==
    /\ Dispatched
    /\ tool_call.tool_type = "equality_check"
    /\ tool_call.additional_data = None
    /\ tool_outcome.result.message[1] = "Equality check requires two data values"

\* The operations each tool type supports.
SupportedOperations(tool_type) ==
    IF tool_type = "compare"
    THEN {"equals", "not_equals", "greater_than", "less_than", "rounded_equality"}
    ELSE IF tool_type = "date_range_check" THEN {"in_range", "greater_than", "less_than"}
    ELSE IF tool_type = "validate_presence" THEN {"exists", "not_exists", "contains"}
    ELSE IF tool_type = "equality_check" THEN {"equals"}
    ELSE IF tool_type = "rounded_equality" THEN {"rounded_equality"}
    ELSE {}

UnsupportedMessages ==
    {"Unsupported operation", "Unsupported date operation",
     "Unsupported validation operation", "Unsupported tool type"}

\* C13: a tool type called with an operation it does not support returns
\* passed = false with a message that names the unsupported combination,
\* whatever the data.
C13_UnsupportedPairRejected ==
    (Dispatched /\ tool_call.operation \notin SupportedOperations(tool_call.tool_type))
    => /\ ~tool_outcome.raised
       /\ ~tool_outcome.result.passed
       /\ tool_outcome.result.message[1] \in UnsupportedMessages

(***************************************************************************)
(* Claims about the comparators                                            *)
(***************************************************************************)
Returned_(function) == pc = "done" /\ tool_call.function = function

\* The call of a rounded-equality comparator returned.
RoundedReturned ==
    pc = "done" /\ tool_call.function \in {"rounded_equality", "CompareTool._rounded_equality"}

\* passed of what a comparator returned, whichever its shape.
PassedOf(outcome) ==
    IF "result" \in DOMAIN outcome THEN outcome.result.passed ELSE outcome.passed

\* C14 (as the code behaves): at two places 0.651 and 0.654 both equal 0.65
\* after rounding, so both comparisons pass; 0.656 rounds to 0.66 and fails.
C14_NearestHundredth ==
    (RoundedReturned /\ tool_call.b = Milli(650) /\ tool_call.places = 2)
    => /\ tool_call.a \in {Milli(651), Milli(654)}
          => (~tool_outcome.raised /\ PassedOf(tool_outcome))
       /\ tool_call.a = Milli(656)
          => (~tool_outcome.raised /\ ~PassedOf(tool_outcome))

\* rounded_equality(0.654, 0.65, places=2) returned passed = true.
C14_Witness ==
    /\ Returned_("rounded_equality")
    /\ tool_call.a = Milli(654) /\ tool_call.b = Milli(650) /\ tool_call.places = 2
    /\ PassedOf(tool_outcome)

\* C14 (as stated): rounded_equality(0.651, 0.65, places=2) passes and
\* rounded_equality(0.654, 0.65, places=2) does not.
C14_AsStated ==
    (RoundedReturned /\ tool_call.b = Milli(650) /\ tool_call.places = 2)
    => /\ tool_call.a = Milli(651) => PassedOf(tool_outcome)
       /\ tool_call.a = Milli(654) => ~PassedOf(tool_outcome)

\* C15: for numeric a and b the rounded-equality comparison passes exactly
\* when a and b are equal after rounding half-up (ties away from zero) to the
\* configured number of places in exact decimal arithmetic.
C15_ExactHalfUpAtPlaces ==
    (RoundedReturned /\ IsNumber(tool_call.a) /\ IsNumber(tool_call.b))
    => /\ ~tool_outcome.raised
       /\ PassedOf(tool_outcome)
              = (RoundHalfUp(tool_call.a.units, tool_call.places)
                     = RoundHalfUp(tool_call.b.units, tool_call.places))

\* An operand that is no number: None or a str that does not read as one.
NonNumeric(v) == ToFloat(v).raised

\* C16: a comparator given a non-numeric, null or malformed operand returns
\* passed = false instead of raising.
C16_FailsInsteadOfRaising ==
    (RoundedReturned /\ (NonNumeric(tool_call.a) \/ NonNumeric(tool_call.b)))
    => (~tool_outcome.raised /\ ~PassedOf(tool_outcome))

IsLetter(c) ==
    \/ \E i \in DOMAIN LowerCase : LowerCase[i] = c
    \/ \E i \in DOMAIN UpperCase : UpperCase[i] = c

\* The letters and digits of a str, in order, case folded.
RECURSIVE Canonical(_)
Canonical(chars) ==
    IF chars = <<>> THEN <<>>
    ELSE (IF IsLetter(Head(chars)) \/ IsDigit(Head(chars))
          THEN <<LowerChar(Head(chars))>> ELSE <<>>) \o Canonical(Tail(chars))

\* C17: equals with normalize = true passes exactly when the operands are
\* identical once every character that is no letter or digit is removed and
\* case is folded; with normalize = false exactly when they are identical.
C17_NormalizedEquality ==
    Returned_("equals")
    => /\ ~tool_outcome.raised
       /\ tool_call.normalize
          => tool_outcome.passed
                 = (Canonical(ToStr(tool_call.left)) = Canonical(ToStr(tool_call.right)))
       /\ ~tool_call.normalize
          => tool_outcome.passed = (ToStr(tool_call.left) = ToStr(tool_call.right))

\* The seconds in n days.
DaySeconds(n) == n * 86400

\* The seconds from the start of BaseYear to a datetime.
Instant(dt) == DaySeconds(dt.day) + dt.secs

\* Both dates are well formed and the window is a number of days.
WellFormedRange ==
    /\ ~_to_dt(tool_call.date_val).raised
    /\ ~_to_dt(tool_call.min_date).raised
    /\ tool_call.max_offset_days.type = "int"

\* C18: date_in_range passes exactly when the value lies between min_date
\* and min_date + max_offset_days, both ends included; against 2025-10-01
\* with a window of 7 days, 2025-10-02 passes and 2025-10-10 fails.
C18_InclusiveRange ==
    (Returned_("date_in_range") /\ WellFormedRange)
    => LET value == Instant(_to_dt(tool_call.date_val).value)
           low   == Instant(_to_dt(tool_call.min_date).value)
           high  == low + DaySeconds(tool_call.max_offset_days.value)
       IN /\ ~tool_outcome.raised
          /\ tool_outcome.passed = (low <= value /\ value <= high)
          /\ (/\ tool_call.min_date = Str(FormatDate(2025, 10, 1))
              /\ tool_call.max_offset_days = PyInt(7))
             => /\ tool_call.date_val = Str(FormatDate(2025, 10, 2)) => tool_outcome.passed
                /\ tool_call.date_val = Str(FormatDate(2025, 10, 10)) => ~tool_outcome.passed

\* The value on the last instant of the window passed.
C18_Witness ==
    /\ Returned_("date_in_range")
    /\ tool_call.date_val = Str(FormatDate(2025, 10, 8))
    /\ tool_call.min_date = Str(FormatDate(2025, 10, 1))
    /\ tool_call.max_offset_days = PyInt(7)
    /\ ~tool_outcome.raised
    /\ tool_outcome.passed

\* A date operand of the run does not parse.
UnparsableDate ==
    _to_dt(tool_call.modified_timestamp).raised \/ _to_dt(tool_call.effective_date).raised

\* C19: a run with an unparsable date operand still returns its output; the
\* parse failure is caught and recorded as the failed effective-date check,
\* and no exception reaches the caller of run.
C19_ParseFailureRecorded ==
    (Returned_("WorkflowEngine.run") /\ UnparsableDate)
    => /\ ~tool_outcome.raised
       /\ \E k \in DOMAIN tool_outcome.checks :
              /\ tool_outcome.checks[k].test_id = "effective_date_window"
              /\ ~tool_outcome.checks[k].passed
       /\ DecisionOf(tool_outcome.result) = "FAIL"

TimedOut(id, k) == elapsed_log[id][k] > tool_call.timeout

\* C21: a test one of whose attempts exceeds the timeout makes no further
\* attempt and is recorded failed with a timeout reason, and the other test
\* of its phase is still executed and recorded.
C21_TimeoutTruncatesRetries ==
    (tool_call.function = "execute_test" /\ pc = "done")
    => \A id \in NodeIds(test_dag) :
           \A k \in DOMAIN elapsed_log[id] :
               TimedOut(id, k)
               => /\ Len(elapsed_log[id]) = k
                  /\ ~test_results[id].passed
                  /\ test_results[id].message = "timeout"
                  /\ \A other \in NodeIds(test_dag) : test_results[other] # NoResult

\* C22: a graph in which a dependency names no node, or in which two nodes
\* share a test_id, is rejected: the Sequencer reports an error and no
\* execution order, the run gets no test sequence and no test is executed.
C22_MalformedGraphRejected ==
    (~UniqueIds(test_dag) \/ ~DepsResolve(test_dag))
    => /\ sequence_result.status # "success"
       /\ sequence_result.execution_order = <<>>
       /\ test_sequence = <<>>
       /\ \A id \in TestIds : invocations[id] = 0 /\ test_results[id] = NoResult
       /\ pc = "done" => (Sequenced => sequence_result.status = "error")
       /\ pc # "executing"

\* A run over a graph with a duplicated test_id and no other defect ended
\* with the Sequencer's error.
C22_Witness ==
    /\ ~UniqueIds(test_dag)
    /\ DepsResolve(test_dag)
    /\ ~Cyclic(test_dag)
    /\ Len(test_dag) = MaxNodes
    /\ pc = "done"
    /\ sequence_result.status = "error"

\* The ids emitted before position p of an order.
EmittedBefore(order, p) == {order[q] : q \in 1..(p - 1)}

\* The list indexes of the nodes eligible at position p: not yet emitted,
\* every dependency emitted.
EligibleAt(nodes, order, p) ==
    {k \in DOMAIN nodes :
        /\ nodes[k].test_id \notin EmittedBefore(order, p)
        /\ Range(nodes[k].dependencies) \subseteq EmittedBefore(order, p)}

\* C23: at every position of the execution order the node emitted is, of
\* the nodes eligible there, the one that comes first in the node list.
C23_FirstListedEligibleWins ==
    (Sequenced /\ sequence_result.status = "success" /\ UniqueIds(test_dag))
    => \A p \in DOMAIN sequence_result.execution_order :
           \A k \in EligibleAt(test_dag, sequence_result.execution_order, p) :
               \E j \in DOMAIN test_dag :
                   /\ test_dag[j].test_id = sequence_result.execution_order[p]
                   /\ j <= k

(***************************************************************************)
(* Claims about the phase grouping                                         *)
(***************************************************************************)
RECURSIVE ConcatTests(_)
ConcatTests(phases) ==
    IF phases = <<>> THEN <<>>
    ELSE Head(phases).tests \o ConcatTests(Tail(phases))

IsParallelId(id) == NodeOf(test_dag, id).parallel_execution

\* C24: the phases of a successful sequencing are non-empty and, joined in
\* order, give back the execution order; a sequential phase is one
\* non-parallel test, a parallel phase holds parallel tests only, and no two
\* parallel phases are adjacent (so each is a maximal run of parallel tests).
C24_PhasesPartitionOrder ==
    (tool_call.function = "get_test_sequence" /\ sequence_result.status = "success")
    => LET phases == sequence_result.execution_phases
       IN /\ ConcatTests(phases) = sequence_result.execution_order
          /\ \A p \in DOMAIN phases :
                 /\ phases[p].tests # <<>>
                 /\ phases[p].phase_type \in {"sequential", "parallel"}
                 /\ phases[p].phase_type = "sequential"
                    => /\ Len(phases[p].tests) = 1
                       /\ ~IsParallelId(phases[p].tests[1])
                 /\ phases[p].phase_type = "parallel"
                    => \A i \in DOMAIN phases[p].tests : IsParallelId(phases[p].tests[i])
          /\ \A p \in 1..(Len(phases) - 1) :
                 ~(phases[p].phase_type = "parallel" /\ phases[p + 1].phase_type = "parallel")

\* A sequencing with a parallel phase of two tests and a sequential phase.
C24_Witness ==
    /\ tool_call.function = "get_test_sequence"
    /\ sequence_result.status = "success"
    /\ \E p \in DOMAIN sequence_result.execution_phases :
           /\ sequence_result.execution_phases[p].phase_type = "parallel"
           /\ Len(sequence_result.execution_phases[p].tests) >= 2
    /\ \E p \in DOMAIN sequence_result.execution_phases :
           sequence_result.execution_phases[p].phase_type = "sequential"

\* C28: no parallel phase of a successful sequencing holds both a test and
\* one of its direct or transitive dependencies.
C28_ParallelPhaseIndependent ==
    (tool_call.function = "get_test_sequence" /\ sequence_result.status = "success")
    => \A p \in DOMAIN sequence_result.execution_phases :
          sequence_result.execution_phases[p].phase_type = "parallel"
          => \A a, b \in Range(sequence_result.execution_phases[p].tests) :
                b \notin TransitiveDeps(test_dag, a)

(***************************************************************************)
(* Claim about the result set                                              *)
(***************************************************************************)
StoredIds == {id \in TestIds : test_results[id] # NoResult}

LastAttempt(id) == attempt_log[id][Len(attempt_log[id])]

\* C25: in a run on an existing session the result set holds, under each
\* test_id, at most the one result of that test, and only for tests that
\* were attempted; once execute_test has returned for a test, the stored
\* result is the returned one, it is the outcome of the final attempt, and
\* its passed value is that of the returned result.
C25_OneResultLastWriteWins ==
    (tool_call = NoCall /\ session = "ready")
    => /\ \A id \in StoredIds :
              /\ test_results[id].test_id = id
              /\ invocations[id] > 0
       /\ Cardinality(StoredIds) <= Len(test_sequence)
       /\ \A k \in DOMAIN execution_results :
              LET returned == execution_results[k]
                  id       == returned.test_id
              IN /\ test_results[id] = returned
                 /\ test_results[id].passed = returned.passed
                 /\ returned.passed = (LastAttempt(id) = "passed")
                 /\ LastAttempt(id) \in Errors => test_results[id].error = LastAttempt(id)

\* A test whose first attempt raised and was stored, and whose retry passed.
C25_Witness ==
    /\ tool_call = NoCall
    /\ session = "ready"
    /\ pc = "done"
    /\ \E k \in DOMAIN execution_results :
           LET id == execution_results[k].test_id
           IN /\ Len(attempt_log[id]) >= 2
              /\ attempt_log[id][1] \in Errors
              /\ LastAttempt(id) = "passed"
              /\ test_results[id].passed

(***************************************************************************)
(* Claim about the readiness query                                         *)
(***************************************************************************)
NodeById(id) == test_dag[CHOOSE k \in DOMAIN test_dag : test_dag[k].test_id = id]

AllDependenciesPassed(id) ==
    \A dep \in Range(NodeById(id).dependencies) :
        test_results[dep] # NoResult /\ test_results[dep].passed

ReadinessAnswered ==
    tool_call.function = "check_test_dependencies" /\ pc = "done"

\* C26: on a session that exists and has its ticket type, the query on a test
\* of the graph answers ready exactly when every dependency has a stored
\* result that passed (a pending or failed dependency makes it not ready, a
\* test without dependencies is ready), and get_next_executable_tests lists
\* exactly those tests; on any other session, or for a test_id that is not in
\* the graph, the answer is not ready with an error.
C26_ReadyIffDependenciesPassed ==
    /\ ReadinessAnswered
       => IF session = "ready" /\ tool_call.test_id \in NodeIds(test_dag)
          THEN /\ tool_outcome.ready <=> AllDependenciesPassed(tool_call.test_id)
               /\ tool_outcome.error = ""
          ELSE ~tool_outcome.ready /\ tool_outcome.error # ""
    /\ (tool_call.function = "get_next_executable_tests" /\ pc = "done")
       => Range(tool_outcome.executable) =
             IF session = "ready"
             THEN {id \in NodeIds(test_dag) : AllDependenciesPassed(id)}
             ELSE {}

\* The query answered ready for a test whose two dependencies passed.
C26_Witness ==
    /\ ReadinessAnswered
    /\ session = "ready"
    /\ tool_call.test_id \in NodeIds(test_dag)
    /\ Len(NodeById(tool_call.test_id).dependencies) = 2
    /\ tool_outcome.ready

(***************************************************************************)
(* Claim about skipped dependencies                                        *)
(***************************************************************************)
ReturnedIds == {enhanced_results[k].test_id : k \in DOMAIN enhanced_results}

\* The results of the run so far as a result set keyed by test_id.
ReturnedResults ==
    [id \in NodeIds(test_dag) |->
        IF id \in ReturnedIds THEN EnhancedResultFor(id) ELSE NoResult]

PassedOrSkipped(id) ==
    /\ id \in ReturnedIds
    /\ EnhancedResultFor(id).passed \/ EnhancedResultFor(id).skipped

C29_ExtractionFailureStopsPipeline ==
    (tool_call.function = "process_ticket" /\ tool_call.extraction # "ok"
       /\ pc # "extract")
    => /\ pc = "done" => (run_result.status = "error" /\ run_result.step = "data_extraction")
       /\ ~Sequenced
       /\ test_sequence = <<>>
       /\ \A id \in TestIds : invocations[id] = 0 /\ test_results[id] = NoResult

(***************************************************************************)
(* Claim about termination                                                 *)
(***************************************************************************)
ReturnedCount(id) ==
    Cardinality({k \in DOMAIN execution_results : execution_results[k].test_id = id})

\* The run has returned and holds, for every test of the graph, exactly one
\* returned result and a stored result, of a test that was attempted.
TerminatedWithAllRecorded ==
    /\ pc = "done"
    /\ run_result.status # "error"
    /\ Len(execution_results) = Len(test_dag)
    /\ \A id \in NodeIds(test_dag) :
           /\ ReturnedCount(id) = 1
           /\ invocations[id] >= 1
           /\ test_results[id] # NoResult
           /\ test_results[id].test_id = id

\* C30: a run on a session with its ticket type, over a graph with no cycle,
\* terminates, and when it has terminated every test of the graph has been
\* executed and has exactly one result (passed or failed) in the results of
\* the run, whatever the tests before it did.
C30_RunTerminatesAllRecorded ==
    <>((tool_call = NoCall /\ session = "ready" /\ ~Cyclic(test_dag))
         => TerminatedWithAllRecorded)

\* A terminated run in which every attempt of the first test raised and the
\* test that depends on it was still executed and recorded.
C30_Witness ==
    /\ TerminatedWithAllRecorded
    /\ tool_call = NoCall
    /\ session = "ready"
    /\ Len(test_sequence) >= 2
    /\ \E i, j \in DOMAIN execution_results :
           /\ i < j
           /\ ~execution_results[i].passed
           /\ Len(attempt_log[execution_results[i].test_id]) >= 2
           /\ \A a \in DOMAIN attempt_log[execution_results[i].test_id] :
                  attempt_log[execution_results[i].test_id][a] \in Errors
           /\ execution_results[i].test_id
                  \in Range(NodeOf(test_dag, execution_results[j].test_id).dependencies)

====
